---- MODULE Spec2Model ----
(***************************************************************************)
(* Model of the oasis-sdk runtime dispatcher (runtime-sdk/src/dispatcher.rs) *)
(* running a runtime made of the consensus-accounts module and the         *)
(* simple-keyvalue test module, chained as a module tuple (module.rs).     *)
(***************************************************************************)
EXTENDS Integers, Sequences, FiniteSets, TLC

\* ------------------------------------------------------------------ bounds
\* Number of bits of the model's u128.
U128Bits == 4
\* Number of variants of a derived error enum and the largest explicit code.
MaxVariants == 3
MaxCode == 3
\* Number of characters of a method name.
MaxMethodLen == 3
\* Number of threads that call generate_once.
MaxThreads == 3
MaxBatch == 2
MaxRounds == 2
MaxEvents == 2
MaxMessages == 2
MaxModules == 3
MaxVersion == 2

\* --------------------------------------------------------------- constants
NoVal == "<absent>"
Alice == "alice"
Bob == "bob"
ADDRESS_PENDING_WITHDRAWAL == "consensus_accounts/pending-withdrawal"
CONSENSUS_TRANSFER_HANDLER == "consensus.TransferFromRuntime"
CONSENSUS_WITHDRAW_HANDLER == "consensus.WithdrawIntoRuntime"
SPECIAL_GREETING_SCHEME == "keyvalue.special-greeting.v0"
KEYVALUE == "keyvalue"
CONSENSUS_ACCOUNTS == "consensus_accounts"
VERSION == 1
ScalingFactor == 2
GreetingGas == 500

Keys == {"k1", "greeting"}
Addresses == {Alice, Bob, ADDRESS_PENDING_WITHDRAWAL}
ModuleNames == {CONSENSUS_ACCOUNTS, KEYVALUE}

\* Gas costs of the genesis parameters of the two modules.
KeyvalueGenesis ==
  [insert_absent |-> 2, insert_existing |-> 1, remove_absent |-> 1,
   remove_existing |-> 1, tx_deposit |-> 0, tx_withdraw |-> 0]
ConsensusAccountsGenesis ==
  [insert_absent |-> 0, insert_existing |-> 0, remove_absent |-> 0,
   remove_existing |-> 0, tx_deposit |-> 1, tx_withdraw |-> 1]
\* Parameters::default(): what Module::params returns when nothing is stored.
DefaultParameters ==
  [insert_absent |-> 0, insert_existing |-> 0, remove_absent |-> 0,
   remove_existing |-> 0, tx_deposit |-> 0, tx_withdraw |-> 0]
StoredParameters(p) == [set |-> TRUE, gas_costs |-> p]
NoParameters == [set |-> FALSE, gas_costs |-> DefaultParameters]

\* ------------------------------------------------------------ call results
CallOk == [kind |-> "Ok", module |-> "", err |-> ""]
Failed(m, e) == [kind |-> "Failed", module |-> m, err |-> e]
CallAborted(e) == [kind |-> "Aborted", module |-> "dispatcher", err |-> e]
is_success(r) == r.kind = "Ok"

\* Error::into_call_result: an error of the abort variant becomes Aborted,
\* any other error becomes Failed{module, code, message}.
into_call_result(e) ==
  IF e.abort THEN CallAborted(e.err) ELSE Failed(e.module, e.err)
Error(m, e) == [module |-> m, err |-> e, abort |-> FALSE]
AbortError(e) == [module |-> "dispatcher", err |-> e, abort |-> TRUE]
NoError == [module |-> "", err |-> "", abort |-> FALSE]

\* ------------------------------------------------------------ transactions
\* A raw transaction of the batch.  `wire` says what the bytes are,
\* `proof` what the auth proofs are; the remaining fields are the content of
\* the verified transaction.
Body(key, value, amount, valid) ==
  [key |-> key, value |-> value, amount |-> amount, valid |-> valid,
   to |-> NoVal]
RawTx(wire, proof, auth, format, gasOk, gas, method, body) ==
  [wire |-> wire, proof |-> proof, auth |-> auth, format |-> format,
   gasOk |-> gasOk, gas |-> gas, method |-> method, body |-> body,
   signer |-> Alice, nonce |-> IF body.amount > 0 THEN 1 ELSE 0]
\* The auth proofs: signatures (valid or not), or a single Module(scheme).
Signature(valid) == [module |-> FALSE, scheme |-> "", valid |-> valid]
ModuleProof(scheme) == [module |-> TRUE, scheme |-> scheme, valid |-> TRUE]
SignedTx(method, body) ==
  RawTx("cbor", Signature(TRUE), TRUE, "Plain", TRUE, 2, method, body)
Insert1 == Body("k1", "v1", 0, TRUE)

\* Transactions that fail decode_tx, one for each way of failing.
GarbageTx == RawTx("garbage", Signature(TRUE), TRUE, "Plain", TRUE, 2, "keyvalue.Insert", Insert1)
UnapprovedTx == RawTx("unapproved", Signature(TRUE), TRUE, "Plain", TRUE, 2, "keyvalue.Insert", Insert1)
BadSignatureTx == RawTx("cbor", Signature(FALSE), TRUE, "Plain", TRUE, 2, "keyvalue.Insert", Insert1)
OtherSchemeTx == RawTx("cbor", ModuleProof("other.scheme"), TRUE, "Plain", TRUE, 2, "", Body("", "hello", 0, TRUE))
BadGreetingTx == RawTx("cbor", ModuleProof(SPECIAL_GREETING_SCHEME), TRUE, "Plain", TRUE, 2, "", Body("", "hello", 0, FALSE))
GreetingTx == RawTx("cbor", ModuleProof(SPECIAL_GREETING_SCHEME), TRUE, "Plain", TRUE, 2, "", Body("", "hello", 0, TRUE))
\* Transactions that decode and fail before their handler runs.
BadNonceTx == RawTx("cbor", Signature(TRUE), FALSE, "Plain", TRUE, 2, "keyvalue.Insert", Insert1)
BadEnvelopeTx == RawTx("cbor", Signature(TRUE), TRUE, "EncryptedBad", TRUE, 2, "keyvalue.Insert", Insert1)
EmptyEnvelopeTx == RawTx("cbor", Signature(TRUE), TRUE, "EncryptedEmpty", TRUE, 2, "keyvalue.Insert", Insert1)
GasOverflowTx == RawTx("cbor", Signature(TRUE), TRUE, "Plain", FALSE, 2, "keyvalue.Insert", Insert1)
UnknownMethodTx == SignedTx("unknown.Method", Insert1)
\* Calls of the keyvalue module.
InsertTx == SignedTx("keyvalue.Insert", Insert1)
NoGasInsertTx == RawTx("cbor", Signature(TRUE), TRUE, "Plain", TRUE, 0, "keyvalue.Insert", Insert1)
BadBodyInsertTx == SignedTx("keyvalue.Insert", Body("k1", "v1", 0, FALSE))
RemoveTx == SignedTx("keyvalue.Remove", Body("k1", "", 0, TRUE))
GetCreateKeyTx == SignedTx("keyvalue.GetCreateKey", Body("k1", "", 0, TRUE))
AbortingTx == SignedTx("keyvalue.GetCreateKey", Body("unavailable", "", 0, TRUE))
\* Calls of the consensus accounts module; an odd amount is no whole number
\* of consensus units.
DepositTx == SignedTx("consensus.Deposit", Body("", "", 2, TRUE))
WithdrawTx == SignedTx("consensus.Withdraw", Body("", "", 2, TRUE))
OddWithdrawTx == SignedTx("consensus.Withdraw", Body("", "", 1, TRUE))
\* A deposit into another account than the signer's, by a transaction with
\* a nonce of its own.
DepositToTx == [DepositTx EXCEPT !.body.to = Bob, !.nonce = 2]
\* A withdrawal of more than the signer holds, and an insert whose fee
\* covers the insert of an existing key only.
OverdrawTx == SignedTx("consensus.Withdraw", Body("", "", 6, TRUE))
LowGasInsertTx == RawTx("cbor", Signature(TRUE), TRUE, "Plain", TRUE, 1, "keyvalue.Insert", Insert1)
\* A withdrawal to another consensus account than the signer's, and a
\* withdrawal of more than the signer holds whose fee covers no gas.
WithdrawToTx == [WithdrawTx EXCEPT !.body.to = Bob, !.nonce = 2]
\* A deposit of an amount that is no whole number of consensus units.
OddDepositTx == SignedTx("consensus.Deposit", Body("", "", 3, TRUE))
NoGasOverdrawTx == RawTx("cbor", Signature(TRUE), TRUE, "Plain", TRUE, 0, "consensus.Withdraw", Body("", "", 6, TRUE))

\* The transactions of the three specifications: the dispatch paths, the
\* wire decoding with the keyvalue handlers, and the message emitters.
DispatchTxs ==
  { GarbageTx, BadNonceTx, BadEnvelopeTx, EmptyEnvelopeTx, GasOverflowTx, UnknownMethodTx,
    InsertTx, AbortingTx, WithdrawTx, OddWithdrawTx }
WireTxs ==
  { GarbageTx, UnapprovedTx, BadSignatureTx, OtherSchemeTx, BadGreetingTx,
    GreetingTx, InsertTx, NoGasInsertTx, BadBodyInsertTx, RemoveTx,
    GetCreateKeyTx, WithdrawTx }
HostTxs == { DepositTx, WithdrawTx }
\* The transactions handed to check_batch and then to execute_batch.
CheckTxs ==
  { GarbageTx, InsertTx, LowGasInsertTx, WithdrawTx, OverdrawTx, AbortingTx }

Range(s) == {s[i] : i \in DOMAIN s}
\* All sequences over S of length at most n.
RECURSIVE SeqsUpTo(_, _)
SeqsUpTo(S, n) ==
  IF n = 0 THEN {<<>>}
  ELSE LET shorter == SeqsUpTo(S, n - 1)
       IN shorter \cup {Append(s, x) : s \in {t \in shorter : Len(t) = n - 1}, x \in S}

Batches(T) == SeqsUpTo(T, MaxBatch)

\* The message events of the previous round as the host reports them: any
\* list of events, or (a host that keeps its contract) one event for each
\* of the n messages of the previous round, in the order of the messages.
MessageEvents == [index : 0..(MaxMessages - 1), ok : BOOLEAN]
AnyRoundResults(n) == SeqsUpTo(MessageEvents, MaxEvents)
RoundResults(n) ==
  {s \in [1..n -> MessageEvents] : \A i \in 1..n : s[i].index = i - 1}

\* ------------------------------------------------------------------- state
\* The runtime state (the MKVS the batch context writes to): the keyvalue
\* module's entries, the accounts module's balances and total supply, the
\* module parameters, and under the core module the metadata versions and
\* the persisted message handlers.
GenesisState ==
  [kv |-> [k \in Keys |-> NoVal],
   bal |-> [a \in Addresses |-> IF a = Alice THEN 4 ELSE 0],
   supply |-> 4,
   params |-> [m \in ModuleNames |-> NoParameters],
   versions |-> [m \in ModuleNames |-> 0],
   handlers |-> <<>>]

\* Module::params: the stored parameters, or the default ones.
params(st, m) == st.params[m].gas_costs
\* Module::set_params
set_params(st, m, p) == [st EXCEPT !.params[m] = StoredParameters(p)]

\* --------------------------------------------------------- accounts module
\* Results of the fallible operations: [ok, st].
Accounts_transfer(st, from, to, amount) ==
  IF st.bal[from] < amount THEN [ok |-> FALSE, st |-> st]
  ELSE [ok |-> TRUE,
        st |-> [st EXCEPT !.bal = [a \in Addresses |->
                  IF from = to THEN st.bal[a]
                  ELSE IF a = from THEN st.bal[a] - amount
                  ELSE IF a = to THEN st.bal[a] + amount
                  ELSE st.bal[a]]]]
Accounts_mint(st, to, amount) ==
  [ok |-> TRUE,
   st |-> [st EXCEPT !.bal[to] = @ + amount, !.supply = @ + amount]]
Accounts_burn(st, from, amount) ==
  IF st.bal[from] < amount THEN [ok |-> FALSE, st |-> st]
  ELSE [ok |-> TRUE,
        st |-> [st EXCEPT !.bal[from] = @ - amount, !.supply = @ - amount]]

\* ------------------------------------------------------ transaction context
\* The transaction scope opened by with_tx: an overlay over the batch state,
\* the transaction's own tags and messages, and the gas left of fee.gas.
\* max_messages is what is left of the round's message slots.
with_tx(st, batch_messages, tx, check_only, rnd) ==
  [state |-> st, etags |-> <<>>, messages |-> <<>>,
   max_messages |-> IF MaxMessages > Len(batch_messages)
                    THEN MaxMessages - Len(batch_messages) ELSE 0,
   check_only |-> check_only, gas |-> tx.gas, gasOk |-> tx.gasOk,
   weight |-> 0,
   signer |-> tx.signer, nonce |-> tx.nonce, round |-> rnd]

Event(name, key, from, to, amount, nonce, failed) ==
  [name |-> name, key |-> key, from |-> from, to |-> to, amount |-> amount,
   nonce |-> nonce, failed |-> failed]
emit_event(ctx, ev) == [ctx EXCEPT !.etags = Append(@, ev)]

\* A handler's outcome: its error (or NoError) and the context it leaves.
Done(ctx) == [ok |-> TRUE, error |-> NoError, ctx |-> ctx]
Fail(ctx, e) == [ok |-> FALSE, error |-> e, ctx |-> ctx]

\* TxContext::emit_message: refused when the round's slots are used up.
emit_message(ctx, msg, hook) ==
  IF Len(ctx.messages) >= ctx.max_messages
  THEN Fail(ctx, Error("core", "OutOfMessageSlots"))
  ELSE Done([ctx EXCEPT !.messages = Append(@, [msg |-> msg, hook |-> hook])])

\* Core::use_tx_gas
use_tx_gas(ctx, cost) ==
  IF cost > ctx.gas THEN Fail(ctx, Error("core", "OutOfGas"))
  ELSE Done([ctx EXCEPT !.gas = @ - cost])

\* Core::add_weight(ctx, TransactionWeight::ConsensusMessages, n)
add_weight(ctx, n) == Done([ctx EXCEPT !.weight = @ + n])

\* With(v, F) is F(v) with v evaluated once.
With(v, F(_)) == CHOOSE y \in {F(x) : x \in {v}} : TRUE
\* Then(r, F): the `?` operator: r's failure, or F on the context r leaves.
Then(r, F(_)) == With(r, LAMBDA x : IF x.ok THEN F(x.ctx) ELSE x)

\* -------------------------------------------------------- consensus module
\* Consensus::amount_to_consensus: the amount must be a whole number of
\* consensus units.
amount_to_consensus(ctx, amount) ==
  IF amount % ScalingFactor = 0 THEN Done(ctx)
  ELSE Fail(ctx, Error("consensus", "AmountNotRepresentable"))

\* Consensus::ensure_compatible_tx_signer: the only signer is an Ed25519 one.
ensure_compatible_tx_signer(ctx) == Done(ctx)

Message(kind, party, amount) == [kind |-> kind, party |-> party, amount |-> amount]

\* MessageEventHookInvocation::new(hook_name, payload).  `round` is a history
\* tag naming the round of emission; no handler reads it.
HookInvocation(hook_name, from, nonce, to, amount, rnd) ==
  [hook_name |-> hook_name,
   payload |-> [from |-> from, nonce |-> nonce, to |-> to, amount |-> amount],
   round |-> rnd]

\* Consensus::withdraw / Consensus::transfer: emit a staking Withdraw
\* (resp. Transfer) message together with its result hook.
Consensus_emit(ctx, kind, party, amount, hook) ==
  Then(amount_to_consensus(ctx, amount), LAMBDA c1 :
  Then(add_weight(c1, 1), LAMBDA c2 :
    IF c2.check_only THEN Done(c2)
    ELSE emit_message(c2, Message(kind, party, amount \div ScalingFactor), hook)))
Consensus_withdraw(ctx, from, amount, hook) ==
  Consensus_emit(ctx, "staking.Withdraw", from, amount, hook)
Consensus_transfer(ctx, to, amount, hook) ==
  Consensus_emit(ctx, "staking.Transfer", to, amount, hook)

\* ----------------------------------------------- consensus accounts module
deposit(ctx, from, nonce, to, amount) ==
  IF ctx.check_only
  THEN Then(add_weight(ctx, 1), LAMBDA c1 : amount_to_consensus(c1, amount))
  ELSE Consensus_withdraw(ctx, from, amount,
         HookInvocation(CONSENSUS_WITHDRAW_HANDLER, from, nonce, to, amount, ctx.round))

\* withdraw emitting the Transfer message without moving the amount into
\* the pending withdrawal account.
withdraw_without_escrow(ctx, from, nonce, to, amount) ==
  IF ctx.check_only
  THEN Then(add_weight(ctx, 1), LAMBDA c1 : amount_to_consensus(c1, amount))
  ELSE IF ctx.state.bal[from] < amount
  THEN Fail(ctx, Error(CONSENSUS_ACCOUNTS, "InsufficientWithdrawBalance"))
  ELSE Consensus_transfer(ctx, to, amount,
         HookInvocation(CONSENSUS_TRANSFER_HANDLER, from, nonce, to, amount,
                        ctx.round))
\* withdraw doing in check mode what it does when executing.
withdraw_ignores_check_only(ctx, from, nonce, to, amount) ==
  With(Accounts_transfer(ctx.state, from, ADDRESS_PENDING_WITHDRAWAL, amount),
    LAMBDA t :
      IF ~t.ok
      THEN Fail(ctx, Error(CONSENSUS_ACCOUNTS, "InsufficientWithdrawBalance"))
      ELSE With([ctx EXCEPT !.state = t.st, !.check_only = FALSE], LAMBDA c :
             Consensus_transfer(c, to, amount,
               HookInvocation(CONSENSUS_TRANSFER_HANDLER, from, nonce, to, amount,
                              ctx.round))))
withdraw(ctx, from, nonce, to, amount) ==
  IF ctx.check_only
  THEN Then(add_weight(ctx, 1), LAMBDA c1 : amount_to_consensus(c1, amount))
  ELSE With(Accounts_transfer(ctx.state, from, ADDRESS_PENDING_WITHDRAWAL, amount),
         LAMBDA t :
           IF ~t.ok
           THEN Fail(ctx, Error(CONSENSUS_ACCOUNTS, "InsufficientWithdrawBalance"))
           ELSE Consensus_transfer([ctx EXCEPT !.state = t.st], to, amount,
                  HookInvocation(CONSENSUS_TRANSFER_HANDLER, from, nonce, to, amount,
                                 ctx.round)))

\* body.to.unwrap_or(address)
unwrap_or(to, address) == IF to = NoVal THEN address ELSE to

\* tx_deposit depositing into the signer's account whatever body.to says.
tx_deposit_to_signer(ctx, body) ==
  Then(use_tx_gas(ctx, params(ctx.state, CONSENSUS_ACCOUNTS).tx_deposit), LAMBDA c1 :
  Then(ensure_compatible_tx_signer(c1), LAMBDA c2 :
    deposit(c2, c2.signer, c2.nonce, c2.signer, body.amount)))
tx_deposit(ctx, body) ==
  Then(use_tx_gas(ctx, params(ctx.state, CONSENSUS_ACCOUNTS).tx_deposit), LAMBDA c1 :
  Then(ensure_compatible_tx_signer(c1), LAMBDA c2 :
    deposit(c2, c2.signer, c2.nonce, unwrap_or(body.to, c2.signer), body.amount)))

tx_withdraw(ctx, body) ==
  Then(use_tx_gas(ctx, params(ctx.state, CONSENSUS_ACCOUNTS).tx_withdraw), LAMBDA c1 :
  Then(IF body.to = NoVal THEN ensure_compatible_tx_signer(c1) ELSE Done(c1),
       LAMBDA c2 :
    withdraw(c2, c2.signer, c2.nonce, unwrap_or(body.to, c2.signer), body.amount)))

DepositEvent(context, failed) ==
  Event("consensus_accounts.Deposit", "", context.from, context.to,
        context.amount, context.nonce, failed)
WithdrawEvent(context, failed) ==
  Event("consensus_accounts.Withdraw", "", context.from, context.to,
        context.amount, context.nonce, failed)

\* The message result handlers run on the batch context: bc is
\* [state, tags, panic]; a failed expect() or unwrap() is a panic.
\* message_result_transfer refunding the account the withdrawal was to go to.
message_result_transfer_refunds_recipient(bc, me, context) ==
  IF ~me.ok
  THEN With(Accounts_transfer(bc.state, ADDRESS_PENDING_WITHDRAWAL,
                              context.to, context.amount),
         LAMBDA t :
           IF ~t.ok THEN [bc EXCEPT !.panic = TRUE]
           ELSE [bc EXCEPT !.state = t.st,
                           !.tags = Append(@, WithdrawEvent(context, TRUE))])
  ELSE With(Accounts_burn(bc.state, ADDRESS_PENDING_WITHDRAWAL, context.amount),
         LAMBDA b :
           IF ~b.ok THEN [bc EXCEPT !.panic = TRUE]
           ELSE [bc EXCEPT !.state = b.st,
                           !.tags = Append(@, WithdrawEvent(context, FALSE))])
message_result_transfer(bc, me, context) ==
  IF ~me.ok
  THEN With(Accounts_transfer(bc.state, ADDRESS_PENDING_WITHDRAWAL,
                              context.from, context.amount),
         LAMBDA t :
           IF ~t.ok THEN [bc EXCEPT !.panic = TRUE]
           ELSE [bc EXCEPT !.state = t.st,
                           !.tags = Append(@, WithdrawEvent(context, TRUE))])
  ELSE With(Accounts_burn(bc.state, ADDRESS_PENDING_WITHDRAWAL, context.amount),
         LAMBDA b :
           IF ~b.ok THEN [bc EXCEPT !.panic = TRUE]
           ELSE [bc EXCEPT !.state = b.st,
                           !.tags = Append(@, WithdrawEvent(context, FALSE))])

\* message_result_withdraw minting whatever the result of the message.
message_result_withdraw_mints_on_failure(bc, me, context) ==
  With(Accounts_mint(bc.state, context.to, context.amount),
    LAMBDA m :
      IF ~m.ok THEN [bc EXCEPT !.panic = TRUE]
      ELSE [bc EXCEPT !.state = m.st,
                      !.tags = Append(@, DepositEvent(context, ~me.ok))])
\* message_result_withdraw minting to the account the deposit came from.
message_result_withdraw_mints_to_sender(bc, me, context) ==
  IF ~me.ok
  THEN [bc EXCEPT !.tags = Append(@, DepositEvent(context, TRUE))]
  ELSE With(Accounts_mint(bc.state, context.from, context.amount),
         LAMBDA m :
           IF ~m.ok THEN [bc EXCEPT !.panic = TRUE]
           ELSE [bc EXCEPT !.state = m.st,
                           !.tags = Append(@, DepositEvent(context, FALSE))])
message_result_withdraw(bc, me, context) ==
  IF ~me.ok
  THEN [bc EXCEPT !.tags = Append(@, DepositEvent(context, TRUE))]
  ELSE With(Accounts_mint(bc.state, context.to, context.amount),
         LAMBDA m :
           IF ~m.ok THEN [bc EXCEPT !.panic = TRUE]
           ELSE [bc EXCEPT !.state = m.st,
                           !.tags = Append(@, DepositEvent(context, FALSE))])

\* ------------------------------------------------------- check_invariants
u128_MAX == 2^U128Bits - 1
None == [some |-> FALSE, v |-> 0]
Some(v) == [some |-> TRUE, v |-> v]
\* What check_invariants reads through its context: whether the consensus
\* denomination and the total supplies can be read, the total supply of the
\* consensus denomination (None: no entry), whether the runtime's consensus
\* account can be read and the balance of its general account, a Quantity
\* that may exceed u128.
InvariantInputs ==
  [den_ok : BOOLEAN, ts_ok : BOOLEAN,
   total_supply : {None} \cup {Some(v) : v \in 0..u128_MAX},
   account_ok : BOOLEAN, balance : 0..(u128_MAX + 1)]
\* Consensus::amount_from_consensus: the amount in runtime units, unless it
\* does not fit.
amount_from_consensus(amount) ==
  IF amount * ScalingFactor > u128_MAX THEN None
  ELSE Some(amount * ScalingFactor)
InvariantOk == [kind |-> "Ok", message |-> ""]
InvariantViolation(message) == [kind |-> "InvariantViolation", message |-> message]
InvariantPanic == [kind |-> "panic", message |-> ""]
\* check_invariants refusing a total supply equal to the balance.
check_invariants_strict(in) ==
  IF ~in.den_ok THEN InvariantPanic
  ELSE IF ~in.ts_ok THEN InvariantViolation("unable to get total supplies")
  ELSE LET general == IF in.account_ok THEN in.balance ELSE 0
           rt_ga_balance ==
             amount_from_consensus(IF general > u128_MAX THEN u128_MAX ELSE general)
       IN IF ~rt_ga_balance.some
          THEN InvariantViolation("runtime's consensus balance is not representable")
          ELSE IF ~in.total_supply.some THEN InvariantOk
          ELSE IF in.total_supply.v < rt_ga_balance.v THEN InvariantOk
          ELSE InvariantViolation(
                 "total supply is greater than runtime's general account balance")
\* InvariantHandler::check_invariants of the consensus accounts module.
check_invariants(in) ==
  IF ~in.den_ok THEN InvariantPanic
  ELSE IF ~in.ts_ok THEN InvariantViolation("unable to get total supplies")
  ELSE LET general == IF in.account_ok THEN in.balance ELSE 0
           rt_ga_balance ==
             amount_from_consensus(IF general > u128_MAX THEN u128_MAX ELSE general)
       IN IF ~rt_ga_balance.some
          THEN InvariantViolation("runtime's consensus balance is not representable")
          ELSE IF ~in.total_supply.some THEN InvariantOk
          ELSE IF in.total_supply.v <= rt_ga_balance.v THEN InvariantOk
          ELSE InvariantViolation(
                 "total supply is greater than runtime's general account balance")

\* --------------------------------------------------------- keyvalue module
\* Key ids for which the key manager reports a failure.
KeyManagerUnavailable == {"unavailable"}

tx_insert(ctx, body) ==
  Then(use_tx_gas(ctx, IF ctx.state.kv[body.key] = NoVal
                       THEN params(ctx.state, KEYVALUE).insert_absent
                       ELSE params(ctx.state, KEYVALUE).insert_existing),
       LAMBDA c1 :
         IF c1.check_only THEN Done(c1)
         ELSE Done(emit_event([c1 EXCEPT !.state.kv[body.key] = body.value],
                     Event("keyvalue.Insert", body.key, "", "", 0, 0, FALSE))))

tx_remove(ctx, body) ==
  Then(use_tx_gas(ctx, IF ctx.state.kv[body.key] = NoVal
                       THEN params(ctx.state, KEYVALUE).remove_absent
                       ELSE params(ctx.state, KEYVALUE).remove_existing),
       LAMBDA c1 :
         IF c1.check_only THEN Done(c1)
         ELSE Done(emit_event([c1 EXCEPT !.state.kv[body.key] = NoVal],
                     Event("keyvalue.Remove", body.key, "", "", 0, 0, FALSE))))

tx_getcreatekey(ctx, body) ==
  IF ctx.check_only THEN Done(ctx)
  ELSE IF body.key \in KeyManagerUnavailable
       THEN Fail(ctx, AbortError("KeyManagerFailure"))
       ELSE Done(ctx)

\* ------------------------------------------------------------ module tuple
\* The runtime's modules in declaration order.
Modules == <<"core", "accounts", CONSENSUS_ACCOUNTS, KEYVALUE>>

Handled(result, ctx) == [handled |-> TRUE, result |-> result, ctx |-> ctx]
Unhandled(ctx) == [handled |-> FALSE, result |-> CallOk, ctx |-> ctx]

\* module::dispatch_call: decode the body, run the handler (outcome is what
\* the handler gives on the decoded body), turn its outcome into a call
\* result.
module_dispatch_call(ctx, body, outcome) ==
  IF ~body.valid
  THEN Handled(into_call_result(Error("core", "InvalidArgument")), ctx)
  ELSE With(outcome, LAMBDA r :
         IF r.ok THEN Handled(CallOk, r.ctx)
         ELSE Handled(into_call_result(r.error), r.ctx))

ConsensusAccounts_dispatch_call(ctx, method, body) ==
  CASE method = "consensus.Deposit" -> module_dispatch_call(ctx, body, tx_deposit(ctx, body))
    [] method = "consensus.Withdraw" -> module_dispatch_call(ctx, body, tx_withdraw(ctx, body))
    [] OTHER -> Unhandled(ctx)

Keyvalue_dispatch_call(ctx, method, body) ==
  CASE method = "keyvalue.Insert" -> module_dispatch_call(ctx, body, tx_insert(ctx, body))
    [] method = "keyvalue.Remove" -> module_dispatch_call(ctx, body, tx_remove(ctx, body))
    [] method = "keyvalue.GetCreateKey" -> module_dispatch_call(ctx, body, tx_getcreatekey(ctx, body))
    [] OTHER -> Unhandled(ctx)

\* MethodHandler::dispatch_call of one module (the trait's default for the
\* modules that declare no calls here).
Module_dispatch_call(m, ctx, method, body) ==
  CASE m = CONSENSUS_ACCOUNTS -> ConsensusAccounts_dispatch_call(ctx, method, body)
    [] m = KEYVALUE -> Keyvalue_dispatch_call(ctx, method, body)
    [] OTHER -> Unhandled(ctx)

\* MethodHandler for Tuple: the first module that handles the method wins.
RECURSIVE Tuple_dispatch_call(_, _, _, _)
Tuple_dispatch_call(i, ctx, method, body) ==
  IF i > Len(Modules) THEN Unhandled(ctx)
  ELSE With(Module_dispatch_call(Modules[i], ctx, method, body), LAMBDA r :
         IF r.handled THEN r
         ELSE Tuple_dispatch_call(i + 1, r.ctx, method, body))

\* A module that takes every hook name for its own.
Module_dispatch_message_result_handles_all(m, bc, handler_name, result) ==
  IF m = CONSENSUS_ACCOUNTS /\ handler_name = CONSENSUS_TRANSFER_HANDLER
  THEN [handled |-> TRUE,
        bc |-> message_result_transfer(bc, result.event, result.context)]
  ELSE IF m = CONSENSUS_ACCOUNTS /\ handler_name = CONSENSUS_WITHDRAW_HANDLER
  THEN [handled |-> TRUE,
        bc |-> message_result_withdraw(bc, result.event, result.context)]
  ELSE [handled |-> TRUE, bc |-> bc]
\* MethodHandler::dispatch_message_result of one module, on the batch
\* context bc = [state, tags, panic].
Module_dispatch_message_result(m, bc, handler_name, result) ==
  IF m = CONSENSUS_ACCOUNTS /\ handler_name = CONSENSUS_TRANSFER_HANDLER
  THEN [handled |-> TRUE,
        bc |-> message_result_transfer(bc, result.event, result.context)]
  ELSE IF m = CONSENSUS_ACCOUNTS /\ handler_name = CONSENSUS_WITHDRAW_HANDLER
  THEN [handled |-> TRUE,
        bc |-> message_result_withdraw(bc, result.event, result.context)]
  ELSE [handled |-> FALSE, bc |-> bc]

RECURSIVE Tuple_dispatch_message_result(_, _, _, _)
Tuple_dispatch_message_result(i, bc, handler_name, result) ==
  IF i > Len(Modules) THEN [handled |-> FALSE, bc |-> bc]
  ELSE With(Module_dispatch_message_result(Modules[i], bc, handler_name, result),
         LAMBDA r :
           IF r.handled THEN r
           ELSE Tuple_dispatch_message_result(i + 1, r.bc, handler_name, result))

\* AuthHandler hooks of one module.  The accounts module checks the
\* signer's nonce and fee, the core module the gas limit; the modules
\* modelled from their source keep the trait's defaults.
Module_approve_unverified_tx(m, utx) ==
  IF m = "core" /\ utx.wire = "unapproved"
  THEN [ok |-> FALSE, error |-> Error("core", "MalformedTransaction")]
  ELSE [ok |-> TRUE, error |-> NoError]
Module_authenticate_tx(m, tx) ==
  IF m = "accounts" /\ ~tx.auth
  THEN [ok |-> FALSE, error |-> Error("core", "InvalidNonce")]
  ELSE [ok |-> TRUE, error |-> NoError]
Module_before_handle_call(m, ctx) ==
  IF m = "core" /\ ~ctx.gasOk
  THEN [ok |-> FALSE, error |-> Error("core", "GasOverflow")]
  ELSE [ok |-> TRUE, error |-> NoError]

\* AuthHandler for Tuple: every module must agree, the first error wins.
RECURSIVE Tuple_approve_unverified_tx(_, _)
Tuple_approve_unverified_tx(i, utx) ==
  IF i > Len(Modules) THEN [ok |-> TRUE, error |-> NoError]
  ELSE With(Module_approve_unverified_tx(Modules[i], utx), LAMBDA r :
         IF ~r.ok THEN r ELSE Tuple_approve_unverified_tx(i + 1, utx))
RECURSIVE Tuple_authenticate_tx(_, _)
Tuple_authenticate_tx(i, tx) ==
  IF i > Len(Modules) THEN [ok |-> TRUE, error |-> NoError]
  ELSE With(Module_authenticate_tx(Modules[i], tx), LAMBDA r :
         IF ~r.ok THEN r ELSE Tuple_authenticate_tx(i + 1, tx))
RECURSIVE Tuple_before_handle_call(_, _)
Tuple_before_handle_call(i, ctx) ==
  IF i > Len(Modules) THEN [ok |-> TRUE, error |-> NoError]
  ELSE With(Module_before_handle_call(Modules[i], ctx), LAMBDA r :
         IF ~r.ok THEN r ELSE Tuple_before_handle_call(i + 1, ctx))

\* AuthHandler::decode_tx of one module: [ok, some, tx, error].
Keyvalue_decode_tx(scheme, utx) ==
  IF scheme = SPECIAL_GREETING_SCHEME
  THEN IF ~utx.body.valid
       THEN [ok |-> FALSE, some |-> FALSE, tx |-> utx,
             error |-> Error("core", "MalformedTransaction")]
       ELSE [ok |-> TRUE, some |-> TRUE,
             tx |-> [utx EXCEPT !.format = "Plain", !.method = "keyvalue.Insert",
                       !.body = Body("greeting", utx.body.value, 0, TRUE),
                       !.gas = GreetingGas],
             error |-> NoError]
  ELSE [ok |-> TRUE, some |-> FALSE, tx |-> utx, error |-> NoError]
Module_decode_tx(m, scheme, utx) ==
  IF m = KEYVALUE THEN Keyvalue_decode_tx(scheme, utx)
  ELSE [ok |-> TRUE, some |-> FALSE, tx |-> utx, error |-> NoError]
RECURSIVE Tuple_decode_tx(_, _, _)
Tuple_decode_tx(i, scheme, utx) ==
  IF i > Len(Modules)
  THEN [ok |-> TRUE, some |-> FALSE, tx |-> utx, error |-> NoError]
  ELSE With(Module_decode_tx(Modules[i], scheme, utx), LAMBDA r :
         IF ~r.ok \/ r.some THEN r ELSE Tuple_decode_tx(i + 1, scheme, utx))

\* -------------------------------------------------------------- migration
\* init_or_migrate initialising from genesis whatever version is recorded.
init_or_migrate_any_version(m, mg, genesis) ==
  [st |-> set_params(mg.st, m, genesis),
   meta |-> [mg.meta EXCEPT ![m] = VERSION],
   changed |-> TRUE]
\* MigrationHandler::init_or_migrate of a module: mg is [st, meta, changed].
init_or_migrate(m, mg, genesis) ==
  LET version == mg.meta[m]
  IN IF version = 0
     THEN [st |-> set_params(mg.st, m, genesis),
           meta |-> [mg.meta EXCEPT ![m] = VERSION],
           changed |-> TRUE]
     ELSE mg
Genesis(m) == IF m = KEYVALUE THEN KeyvalueGenesis ELSE ConsensusAccountsGenesis
Module_init_or_migrate(m, mg) ==
  IF m \in ModuleNames THEN init_or_migrate(m, mg, Genesis(m)) ELSE mg
RECURSIVE Tuple_init_or_migrate(_, _)
Tuple_init_or_migrate(i, mg) ==
  IF i > Len(Modules) THEN mg
  ELSE With(Module_init_or_migrate(Modules[i], mg), LAMBDA r :
         Tuple_init_or_migrate(i + 1, r))
\* Runtime::migrate: load the metadata, run the modules, store it if changed.
migrate(st) ==
  With(Tuple_init_or_migrate(1, [st |-> st, meta |-> st.versions, changed |-> FALSE]),
       LAMBDA mg : IF mg.changed THEN [mg.st EXCEPT !.versions = mg.meta] ELSE mg.st)

\* -------------------------------------------------------------- dispatcher
\* Dispatcher::decode_tx: [ok, tx, error]
Malformed(utx, e) == [ok |-> FALSE, tx |-> utx, error |-> e]
decode_tx_verifies_module_proofs(utx) ==
  IF utx.wire = "garbage"
  THEN Malformed(utx, Error("core", "MalformedTransaction"))
  ELSE With(Tuple_approve_unverified_tx(1, utx), LAMBDA approved :
    IF ~approved.ok THEN Malformed(utx, approved.error)
    ELSE IF ~utx.proof.valid
    THEN Malformed(utx, Error("core", "MalformedTransaction"))
    ELSE IF utx.proof.module
    THEN With(Tuple_decode_tx(1, utx.proof.scheme, utx), LAMBDA d :
           IF ~d.ok THEN Malformed(utx, d.error)
           ELSE IF ~d.some
           THEN Malformed(utx, Error("core", "MalformedTransaction"))
           ELSE [ok |-> TRUE, tx |-> d.tx, error |-> NoError])
    ELSE [ok |-> TRUE, tx |-> utx, error |-> NoError])
decode_tx(utx) ==
  IF utx.wire = "garbage"
  THEN Malformed(utx, Error("core", "MalformedTransaction"))
  ELSE With(Tuple_approve_unverified_tx(1, utx), LAMBDA approved :
    IF ~approved.ok THEN Malformed(utx, approved.error)
    ELSE IF utx.proof.module
    THEN With(Tuple_decode_tx(1, utx.proof.scheme, utx), LAMBDA d :
           IF ~d.ok THEN Malformed(utx, d.error)
           ELSE IF ~d.some
           THEN Malformed(utx, Error("core", "MalformedTransaction"))
           ELSE [ok |-> TRUE, tx |-> d.tx, error |-> NoError])
    ELSE IF ~utx.proof.valid
    THEN Malformed(utx, Error("core", "MalformedTransaction"))
    ELSE [ok |-> TRUE, tx |-> utx, error |-> NoError])

\* callformat::decode_call: [ok, some, error].  Plain calls pass through,
\* an encrypted envelope that cannot be opened is an error, an empty one
\* gives None.
decode_call(ctx, tx, index) ==
  CASE tx.format = "Plain" -> [ok |-> TRUE, some |-> TRUE, error |-> NoError]
    [] tx.format = "EncryptedEmpty" -> [ok |-> TRUE, some |-> FALSE, error |-> NoError]
    [] OTHER -> [ok |-> FALSE, some |-> FALSE,
                 error |-> Error("core", "InvalidCallFormat")]

\* dispatch_tx_call taking an unhandled method for a successful call.
dispatch_tx_call_unhandled_ok(ctx, call) ==
  With(Tuple_before_handle_call(1, ctx), LAMBDA b :
    IF ~b.ok THEN [result |-> into_call_result(b.error), ctx |-> ctx]
    ELSE With(Tuple_dispatch_call(1, ctx, call.method, call.body), LAMBDA d :
           IF d.handled THEN [result |-> d.result, ctx |-> d.ctx]
           ELSE [result |-> CallOk, ctx |-> d.ctx]))

\* Dispatcher::dispatch_tx_call: [result, ctx]
dispatch_tx_call(ctx, call) ==
  With(Tuple_before_handle_call(1, ctx), LAMBDA b :
    IF ~b.ok THEN [result |-> into_call_result(b.error), ctx |-> ctx]
    ELSE With(Tuple_dispatch_call(1, ctx, call.method, call.body), LAMBDA d :
           IF d.handled THEN [result |-> d.result, ctx |-> d.ctx]
           ELSE [result |-> into_call_result(Error("core", "InvalidMethod")),
                 ctx |-> d.ctx]))

\* TxContext::commit: the overlay is flushed into the batch state and the
\* transaction's tags and messages are handed back.
commit(ctx) ==
  [state |-> ctx.state, tags |-> ctx.etags, messages |-> ctx.messages]

\* DispatchResult::new(result, meta) and the struct filled after commit.
DispatchResult(result, tags, weights) ==
  [result |-> result, tags |-> tags, priority |-> 0, weights |-> weights]

\* What the closure of with_tx hands back when it returns without commit:
\* the overlay is dropped, the batch state stays what it was (parent).
Discarded(parent, result) ==
  [result |-> DispatchResult(result, <<>>, 0), messages |-> <<>>,
   state |-> parent]
\* Committed with the tags of the commit left out of the result.
Committed_without_tags(result, ctx) ==
  With(commit(ctx), LAMBDA c :
    [result |-> DispatchResult(result, <<>>, ctx.weight),
     messages |-> c.messages, state |-> c.state])
\* ... and after ctx.commit().
Committed(result, ctx) ==
  With(commit(ctx), LAMBDA c :
    [result |-> DispatchResult(result, c.tags, ctx.weight),
     messages |-> c.messages, state |-> c.state])

\* tx_scope with the commit moved in front of the success test.
tx_scope_commits_failed(ctx, tx, index) ==
  With(decode_call(ctx, tx, index), LAMBDA d :
    IF d.ok /\ ~d.some THEN Discarded(ctx.state, CallOk)
    ELSE IF ~d.ok THEN Discarded(ctx.state, into_call_result(d.error))
    ELSE With(dispatch_tx_call(ctx, tx), LAMBDA r : Committed(r.result, r.ctx)))

\* The closure dispatch_tx runs inside with_tx:
\* [result : DispatchResult, messages, state] where state is the batch state
\* once the scope is closed.
tx_scope(ctx, tx, index) ==
  With(decode_call(ctx, tx, index), LAMBDA d :
    IF d.ok /\ ~d.some THEN Discarded(ctx.state, CallOk)
    ELSE IF ~d.ok THEN Discarded(ctx.state, into_call_result(d.error))
    ELSE With(dispatch_tx_call(ctx, tx), LAMBDA r :
           IF ~is_success(r.result) THEN Discarded(ctx.state, r.result)
           ELSE Committed(r.result, r.ctx)))

\* BatchContext::emit_messages
emit_messages(batch_messages, messages) == batch_messages \o messages

\* dispatch_tx reporting an aborted call as one more per-transaction result.
dispatch_tx_abort_as_result(bc, tx, index) ==
  With(Tuple_authenticate_tx(1, tx), LAMBDA auth :
    IF ~auth.ok
    THEN [err |-> FALSE, error |-> "",
          result |-> DispatchResult(into_call_result(auth.error), <<>>, 0),
          state |-> bc.state, messages |-> bc.messages]
    ELSE With(tx_scope(with_tx(bc.state, bc.messages, tx, bc.check_only, bc.round),
                       tx, index),
           LAMBDA s :
             [err |-> FALSE, error |-> "", result |-> s.result,
              state |-> s.state,
              messages |-> emit_messages(bc.messages, s.messages)]))

\* Dispatcher::dispatch_tx on the batch context bc = [state, messages,
\* check_only, round]: [err, error, result, state, messages]; err is the
\* Err(e) return.
dispatch_tx(bc, tx, index) ==
  With(Tuple_authenticate_tx(1, tx), LAMBDA auth :
    IF ~auth.ok
    THEN [err |-> FALSE, error |-> "",
          result |-> DispatchResult(into_call_result(auth.error), <<>>, 0),
          state |-> bc.state, messages |-> bc.messages]
    ELSE With(tx_scope(with_tx(bc.state, bc.messages, tx, bc.check_only, bc.round),
                       tx, index),
           LAMBDA s :
             IF s.result.result.kind = "Aborted"
             THEN [err |-> TRUE, error |-> s.result.result.err, result |-> s.result,
                   state |-> s.state, messages |-> bc.messages]
             ELSE [err |-> FALSE, error |-> "", result |-> s.result,
                   state |-> s.state,
                   messages |-> emit_messages(bc.messages, s.messages)]))

\* Dispatcher::execute_tx: the ExecuteTxResult {output, tags}.
execute_tx(d) == [output |-> d.result.result, tags |-> d.result.tags]

\* Dispatcher::handle_last_round_messages on bc = [state, tags, panic]:
\* h is [ok, error, at, bc, handlers, invoked] after the events seen so far.
\* An invocation records the hook name and the MessageResult handed to
\* dispatch_message_result, with the handler's history tag.
Invocation(handler, event) ==
  [hook_name |-> handler.hook_name, event |-> event,
   context |-> handler.payload, round |-> handler.round]
\* Without leaving the consumed entry in the map.
Without_keeps_entry(handlers, index) == handlers
Without(handlers, index) ==
  [j \in (DOMAIN handlers) \ {index} |-> handlers[j]]

RECURSIVE handle_events(_, _, _)
handle_events(h, message_events, i) ==
  IF i > Len(message_events) \/ ~h.ok \/ h.bc.panic THEN h
  ELSE With(message_events[i], LAMBDA event :
    IF event.index \notin DOMAIN h.handlers
    THEN [h EXCEPT !.ok = FALSE, !.error = "MessageHandlerMissing",
                   !.at = event.index]
    ELSE With(h.handlers[event.index], LAMBDA handler :
         With(Tuple_dispatch_message_result(1, h.bc, handler.hook_name,
                [event |-> event, context |-> handler.payload]),
           LAMBDA r :
             IF ~r.handled
             THEN [h EXCEPT !.ok = FALSE,
                            !.error = "InvalidMethod(" \o handler.hook_name
                                        \o ")",
                            !.handlers = Without(h.handlers, event.index)]
             ELSE With([h EXCEPT !.bc = r.bc,
                                 !.handlers = Without(h.handlers, event.index),
                                 !.invoked = Append(@, Invocation(handler, event))],
                    LAMBDA h2 : handle_events(h2, message_events, i + 1)))))

\* handle_last_round_messages without the test for entries left over.
handle_last_round_messages_ignores_leftover(bc, message_events) ==
  handle_events([ok |-> TRUE, error |-> "", at |-> -1, bc |-> bc,
                 handlers |-> bc.state.handlers, invoked |-> <<>>],
                message_events, 1)
\* handle_last_round_messages storing back the map it emptied.
handle_last_round_messages_clears_state(bc, message_events) ==
  With(handle_events([ok |-> TRUE, error |-> "", at |-> -1, bc |-> bc,
                      handlers |-> bc.state.handlers, invoked |-> <<>>],
                     message_events, 1),
    LAMBDA h :
      IF h.ok /\ ~h.bc.panic /\ DOMAIN h.handlers # {}
      THEN [h EXCEPT !.ok = FALSE, !.error = "MessageHandlerNotInvoked"]
      ELSE [h EXCEPT !.bc.state.handlers = h.handlers])
handle_last_round_messages(bc, message_events) ==
  With(handle_events([ok |-> TRUE, error |-> "", at |-> -1, bc |-> bc,
                      handlers |-> bc.state.handlers, invoked |-> <<>>],
                     message_events, 1),
    LAMBDA h :
      IF h.ok /\ ~h.bc.panic /\ DOMAIN h.handlers # {}
      THEN [h EXCEPT !.ok = FALSE, !.error = "MessageHandlerNotInvoked"]
      ELSE h)

\* save_emitted_message_handlers adding to the stored map.
save_emitted_message_handlers_keeps_old(st, handlers) ==
  [st EXCEPT !.handlers =
     [idx \in (DOMAIN st.handlers) \cup (0..(Len(handlers) - 1)) |->
        IF idx < Len(handlers) THEN handlers[idx + 1] ELSE st.handlers[idx]]]
\* save_emitted_message_handlers numbering the handlers from the last one.
save_emitted_message_handlers_reversed(st, handlers) ==
  [st EXCEPT !.handlers =
     [idx \in 0..(Len(handlers) - 1) |-> handlers[Len(handlers) - idx]]]
\* Dispatcher::save_emitted_message_handlers
save_emitted_message_handlers(st, handlers) ==
  [st EXCEPT !.handlers = [idx \in 0..(Len(handlers) - 1) |-> handlers[idx + 1]]]

\* ----------------------------------------------------------------- queries
BATCH_WEIGHT_LIMIT_QUERY_METHOD == "runtime.BatchWeightLimits"

\* The arguments of a query: `wire` says whether the bytes are CBOR at all,
\* `valid` whether the value decodes as the handler's argument type.
Args(wire, valid, key, address) ==
  [wire |-> wire, valid |-> valid, key |-> key, address |-> address]
QueryArgs ==
  { Args("garbage", FALSE, "k1", Alice), Args("cbor", FALSE, "k1", Alice),
    Args("cbor", TRUE, "k1", Alice), Args("cbor", TRUE, "greeting", Alice) }
QueryMethods ==
  { BATCH_WEIGHT_LIMIT_QUERY_METHOD, "keyvalue.Get", "consensus.Balance",
    "consensus.Account", "unknown.Query" }

\* A query's result Result<cbor::Value, RuntimeError>, and a handler's
\* outcome: its result and the state it leaves in the context.
QueryOk(value) == [ok |-> TRUE, module |-> "", err |-> "", value |-> value]
QueryErr(m, e) == [ok |-> FALSE, module |-> m, err |-> e, value |-> NoVal]
Answer(st, result) == [st |-> st, result |-> result]

\* query_get reading the entry and removing it.
query_get_consumes(st, body) ==
  IF st.kv[body.key] = NoVal
  THEN Answer(st, QueryErr(KEYVALUE, "InvalidArgument"))
  ELSE Answer([st EXCEPT !.kv[body.key] = NoVal], QueryOk(st.kv[body.key]))
\* keyvalue: Module::query_get
query_get(st, body) ==
  IF st.kv[body.key] = NoVal
  THEN Answer(st, QueryErr(KEYVALUE, "InvalidArgument"))
  ELSE Answer(st, QueryOk(st.kv[body.key]))

\* Accounts::get_balances for the consensus denomination.
Accounts_get_balances(st, address) == st.bal[address]
\* Consensus::account: the consensus layer's account, not runtime state.
Consensus_account(st, address) == "consensus-account"
\* consensus accounts: Module::query_balance, Module::query_consensus_account
query_balance(st, args) ==
  Answer(st, QueryOk(Accounts_get_balances(st, args.address)))
query_consensus_account(st, args) ==
  Answer(st, QueryOk(Consensus_account(st, args.address)))

\* module::dispatch_query: decode the arguments, run the handler (outcome is
\* what the handler gives on the decoded arguments).
QHandled(st, result) == [handled |-> TRUE, st |-> st, result |-> result]
QUnhandled(st) == [handled |-> FALSE, st |-> st, result |-> QueryOk(NoVal)]
module_dispatch_query(st, args, outcome) ==
  IF ~args.valid THEN QHandled(st, QueryErr("core", "InvalidArgument"))
  ELSE With(outcome, LAMBDA r : QHandled(r.st, r.result))

ConsensusAccounts_dispatch_query(st, method, args) ==
  CASE method = "consensus.Balance" ->
         module_dispatch_query(st, args, query_balance(st, args))
    [] method = "consensus.Account" ->
         module_dispatch_query(st, args, query_consensus_account(st, args))
    [] OTHER -> QUnhandled(st)
Keyvalue_dispatch_query(st, method, args) ==
  CASE method = "keyvalue.Get" ->
         module_dispatch_query(st, args, query_get(st, args))
    [] OTHER -> QUnhandled(st)
Module_dispatch_query(m, st, method, args) ==
  CASE m = CONSENSUS_ACCOUNTS -> ConsensusAccounts_dispatch_query(st, method, args)
    [] m = KEYVALUE -> Keyvalue_dispatch_query(st, method, args)
    [] OTHER -> QUnhandled(st)
RECURSIVE Tuple_dispatch_query(_, _, _, _)
Tuple_dispatch_query(i, st, method, args) ==
  IF i > Len(Modules) THEN QUnhandled(st)
  ELSE With(Module_dispatch_query(Modules[i], st, method, args), LAMBDA r :
         IF r.handled THEN r ELSE Tuple_dispatch_query(i + 1, r.st, method, args))

\* Where a query may panic: nowhere, inside the init_or_migrate of the k-th
\* module of the tuple, or inside the query handler.
NoPanic == [in |-> "none", module |-> 0]
PanicPoints ==
  {NoPanic, [in |-> "handler", module |-> 0]}
    \cup {[in |-> "migrate", module |-> k] : k \in 1..Len(Modules)}

\* The state a migration leaves that panics in module k: the modules before
\* it have run, the metadata has not been stored.
RECURSIVE PanickedMigration(_, _, _)
PanickedMigration(i, k, mg) ==
  IF i >= k THEN mg.st
  ELSE With(Module_init_or_migrate(Modules[i], mg), LAMBDA r :
         PanickedMigration(i + 1, k, r))

\* The closure dispatch_query runs inside catch_unwind:
\* [panicked, st, result].
Returned(st, result) == [panicked |-> FALSE, st |-> st, result |-> result]
Panicked(st) == [panicked |-> TRUE, st |-> st, result |-> QueryOk(NoVal)]
query_closure(st, method, args, panic) ==
  IF panic.in = "migrate"
  THEN Panicked(PanickedMigration(1,
         panic.module, [st |-> st, meta |-> st.versions, changed |-> FALSE]))
  ELSE With(migrate(st), LAMBDA st1 :
         IF method = BATCH_WEIGHT_LIMIT_QUERY_METHOD
         THEN Returned(st1, QueryOk("block-weight-limits"))
         ELSE With(Tuple_dispatch_query(1, st1, method, args), LAMBDA d :
                IF ~d.handled
                THEN Returned(d.st, QueryErr("core", "InvalidMethod"))
                ELSE IF panic.in = "handler" /\ args.valid
                THEN Panicked(st1)
                ELSE Returned(d.st, d.result)))

\* catch_unwind letting the panic through.
catch_unwind_rethrows(r) ==
  [escaped |-> r.panicked, st |-> r.st, result |-> r.result]
\* std::panic::catch_unwind with the map_err that follows it: a panic of
\* the closure becomes the QueryAborted error.
catch_unwind(r) ==
  [escaped |-> FALSE, st |-> r.st,
   result |-> IF r.panicked THEN QueryErr("dispatcher", "QueryAborted")
              ELSE r.result]

\* Dispatcher::dispatch_query on a batch context over st:
\* [escaped, st, result, raised]; raised tells whether the closure panicked.
dispatch_query(st, method, args, panic) ==
  IF args.wire = "garbage"
  THEN [escaped |-> FALSE, st |-> st, raised |-> FALSE,
        result |-> QueryErr("core", "InvalidArgument")]
  ELSE With(query_closure(st, method, args, panic), LAMBDA r :
         With(catch_unwind(r), LAMBDA c :
           [escaped |-> c.escaped, st |-> c.st, raised |-> r.panicked,
            result |-> c.result]))

\* ------------------------------------------------------ confidential store
\* Byte strings: a plaintext (its text and its length), the output of an
\* AEAD seal (the key, nonce and associated data it was sealed with, and the
\* plaintext inside), and a stored key (nonce followed by a sealed key).
NONCE_SIZE == 15
TAG_SIZE == 16
Plain(text, len) == [form |-> "plain", text |-> text, len |-> len]
PlainKeys == { Plain("", 0), Plain("a", 1), Plain("b", 1) }
\* The values written; one of them is also a key.
PlainValues == { Plain("a", 1), Plain("v", 1) }
\* The state key the store is opened with.
StateKey == "K"

\* Hash::digest_bytes(plain_key).truncated(NONCE_SIZE).  Truncation is not
\* injective: the keys a and b are taken to share their first NONCE_SIZE
\* bytes of digest.
Digest(plain_key) == IF plain_key.text = "" THEN 1 ELSE 2

\* DeoxysII::seal and DeoxysII::open: [ok, text].
seal(K, nonce, text, ad) ==
  [form |-> "sealed", key |-> K, nonce |-> nonce, text |-> text, ad |-> ad]
open(K, nonce, ciphertext, ad) ==
  IF /\ ciphertext.form = "sealed" /\ ciphertext.key = K
     /\ ciphertext.nonce = nonce /\ ciphertext.ad = ad
  THEN [ok |-> TRUE, text |-> ciphertext.text]
  ELSE [ok |-> FALSE, text |-> Plain("", 0)]

\* ConfidentialStore::pack_key, make_key: [nonce, key], make_value, get_value
pack_key(enc_key, nonce) == [form |-> "packed", nonce |-> nonce, enc |-> enc_key]
make_key(K, plain_key) ==
  LET nonce == Digest(plain_key)
  IN [nonce |-> nonce, key |-> pack_key(seal(K, nonce, plain_key, nonce), nonce)]
make_value(K, value, nonce) == seal(K, nonce, value, nonce)
get_value(K, enc_value, nonce) == open(K, nonce, enc_value, nonce)

\* The length of a byte string.
Length(bytes) ==
  CASE bytes.form = "plain" -> bytes.len
    [] bytes.form = "sealed" -> bytes.text.len + TAG_SIZE
    [] bytes.form = "packed" -> NONCE_SIZE + bytes.enc.text.len + TAG_SIZE
\* ConfidentialStore::unpack_key and get_key: [ok, nonce, key]
unpack_key(raw_key) ==
  IF Length(raw_key) <= NONCE_SIZE
  THEN [some |-> FALSE, nonce |-> 0, enc |-> Plain("", 0)]
  ELSE [some |-> TRUE, nonce |-> raw_key.nonce, enc |-> raw_key.enc]
get_key(K, raw_key) ==
  LET u == unpack_key(raw_key)
  IN IF ~u.some THEN [ok |-> FALSE, nonce |-> 0, key |-> Plain("", 0)]
     ELSE LET o == open(K, u.nonce, u.enc, u.nonce)
          IN [ok |-> o.ok, nonce |-> u.nonce, key |-> o.text]

\* The inner store: a set of entries [key, value] with one entry for a
\* key, iterated in the order of the stored keys.
Absent == [some |-> FALSE, v |-> Plain("", 0)]
Found(v) == [some |-> TRUE, v |-> v]
Inner_get(inner, key) ==
  IF \E e \in inner : e.key = key
  THEN Found((CHOOSE e \in inner : e.key = key).value)
  ELSE Absent
Inner_remove(inner, key) == {e \in inner : e.key # key}
Inner_insert(inner, key, value) ==
  Inner_remove(inner, key) \cup {[key |-> key, value |-> value]}
\* The order of the stored keys: the nonce comes first.
\* A raw key too short to hold a nonce comes before every stored key.
KeyOrder(key) ==
  IF key.form = "plain" THEN 0
  ELSE key.nonce * 10 + (CASE key.enc.text.text = "" -> 0
                           [] key.enc.text.text = "a" -> 1
                           [] OTHER -> 2)
\* mkvs::Iterator::seek of the inner store: the first entry at or after key.
Inner_seek(inner, key) ==
  LET after == {e \in inner : KeyOrder(e.key) >= KeyOrder(key)}
  IN IF after = {} THEN [valid |-> FALSE, key |-> key, value |-> Plain("", 0)]
     ELSE LET e == CHOOSE x \in after :
                     \A y \in after : KeyOrder(x.key) <= KeyOrder(y.key)
          IN [valid |-> TRUE, key |-> e.key, value |-> e.value]

\* The operations of the confidential store on cs = [key, inner]:
\* [inner, handed, ret, panic], where handed is what went to the inner store.
StoreResult(inner, handed, ret, panic) ==
  [inner |-> inner, handed |-> handed, ret |-> ret, panic |-> panic]
ConfidentialStore_get(cs, key) ==
  LET mk == make_key(cs.key, key)
      got == Inner_get(cs.inner, mk.key)
  IN IF ~got.some THEN StoreResult(cs.inner, <<mk.key>>, Absent, FALSE)
     ELSE LET value == get_value(cs.key, got.v, mk.nonce)
          IN IF ~value.ok THEN StoreResult(cs.inner, <<mk.key>>, Absent, TRUE)
             ELSE StoreResult(cs.inner, <<mk.key>>, Found(value.text), FALSE)
\* insert deriving the nonce from the value it writes.
ConfidentialStore_insert_value_nonce(cs, key, value) ==
  LET nonce == Digest(value)
      inner_key == pack_key(seal(cs.key, nonce, key, nonce), nonce)
      raw_value == make_value(cs.key, value, nonce)
  IN StoreResult(Inner_insert(cs.inner, inner_key, raw_value),
                 <<inner_key, raw_value>>, Absent, FALSE)
\* insert handing the value to the inner store as it is.
ConfidentialStore_insert_plain_value(cs, key, value) ==
  LET mk == make_key(cs.key, key)
  IN StoreResult(Inner_insert(cs.inner, mk.key, value),
                 <<mk.key, value>>, Absent, FALSE)
ConfidentialStore_insert(cs, key, value) ==
  LET mk == make_key(cs.key, key)
      raw_value == make_value(cs.key, value, mk.nonce)
  IN StoreResult(Inner_insert(cs.inner, mk.key, raw_value),
                 <<mk.key, raw_value>>, Absent, FALSE)
\* remove taking every entry that shares the key's nonce.
ConfidentialStore_remove_by_nonce(cs, key) ==
  LET mk == make_key(cs.key, key)
  IN StoreResult({e \in cs.inner : e.key.nonce # mk.nonce}, <<mk.key>>,
                 Absent, FALSE)
ConfidentialStore_remove(cs, key) ==
  LET mk == make_key(cs.key, key)
  IN StoreResult(Inner_remove(cs.inner, mk.key), <<mk.key>>, Absent, FALSE)
\* ConfidentialStoreIterator::seek on a new iterator, with reset_and_load
\* and load: ret is get_value() of the iterator, it is [valid, key, value,
\* error].
NoIter ==
  [valid |-> FALSE, key |-> Absent, value |-> Absent, error |-> ""]
\* seek positioning the inner iterator by the nonce alone.
ConfidentialStoreIterator_seek_by_nonce(cs, key) ==
  LET mk == make_key(cs.key, key)
      at == Inner_seek(cs.inner,
                       pack_key(seal(cs.key, mk.nonce, Plain("", 0), mk.nonce),
                                mk.nonce))
  IN IF ~at.valid THEN [handed |-> <<mk.key>>, it |-> NoIter]
     ELSE LET k == get_key(cs.key, at.key)
              v == get_value(cs.key, at.value, k.nonce)
          IN [handed |-> <<mk.key>>,
              it |-> IF ~k.ok \/ ~v.ok
                     THEN [NoIter EXCEPT !.error = "not decryptable"]
                     ELSE [valid |-> TRUE, key |-> Found(k.key),
                           value |-> Found(v.text), error |-> ""]]
ConfidentialStoreIterator_seek(cs, key) ==
  LET mk == make_key(cs.key, key)
      at == Inner_seek(cs.inner, mk.key)
  IN IF ~at.valid THEN [handed |-> <<mk.key>>, it |-> NoIter]
     ELSE LET k == get_key(cs.key, at.key)
              v == get_value(cs.key, at.value, k.nonce)
          IN [handed |-> <<mk.key>>,
              it |-> IF ~k.ok
                     THEN [NoIter EXCEPT !.error = "raw key value not long enough or not decryptable"]
                     ELSE IF ~v.ok
                     THEN [NoIter EXCEPT !.error = "value not decryptable"]
                     ELSE [valid |-> TRUE, key |-> Found(k.key),
                           value |-> Found(v.text), error |-> ""]]

\* The entries of the inner store in the order of their keys.
RECURSIVE InnerEntries(_)
InnerEntries(inner) ==
  IF inner = {} THEN <<>>
  ELSE LET first == CHOOSE e \in inner :
                      \A y \in inner : KeyOrder(e.key) <= KeyOrder(y.key)
       IN <<first>> \o InnerEntries(inner \ {first})
\* The inner store's iterator is a cursor `pos` into its entries, 0 when it
\* is not valid: new and not yet positioned, or past the last entry.
Inner_rewind(inner) == IF inner = {} THEN 0 ELSE 1
Inner_next(inner, pos) ==
  IF pos = 0 \/ pos >= Cardinality(inner) THEN 0 ELSE pos + 1
Inner_seek_pos(inner, key) ==
  LET at == {i \in 1..Cardinality(inner) :
               KeyOrder(InnerEntries(inner)[i].key) >= KeyOrder(key)}
  IN IF at = {} THEN 0 ELSE CHOOSE i \in at : \A j \in at : i <= j

\* ConfidentialStoreIterator: the inner iterator (pos) and key, value, error.
ConfidentialStoreIterator_new ==
  [pos |-> 0, key |-> Absent, value |-> Absent, error |-> ""]
ConfidentialStoreIterator_is_valid(it) == it.error = "" /\ it.pos # 0
ConfidentialStoreIterator_reset(it) ==
  [it EXCEPT !.key = Absent, !.value = Absent, !.error = ""]
\* load: nothing is loaded into an iterator that is not valid.
ConfidentialStoreIterator_load(cs, it, inner_key, inner_value) ==
  IF ~ConfidentialStoreIterator_is_valid(it) THEN it
  ELSE LET k == get_key(cs.key, inner_key)
           v == get_value(cs.key, inner_value, k.nonce)
       IN IF ~k.ok
          THEN [it EXCEPT !.error = "raw key value not long enough or not decryptable"]
          ELSE IF ~v.ok
          THEN [it EXCEPT !.error = "value not decryptable"]
          ELSE [it EXCEPT !.key = Found(k.key), !.value = Found(v.text)]
\* reset_and_load: a valid inner iterator has a key and a value.
ConfidentialStoreIterator_reset_and_load(cs, it) ==
  LET r == ConfidentialStoreIterator_reset(it)
  IN IF r.pos = 0 THEN r
     ELSE ConfidentialStoreIterator_load(cs, r,
            InnerEntries(cs.inner)[r.pos].key,
            InnerEntries(cs.inner)[r.pos].value)
\* mkvs::Iterator::rewind, next
ConfidentialStoreIterator_rewind(cs, it) ==
  ConfidentialStoreIterator_reset_and_load(cs,
    [it EXCEPT !.pos = Inner_rewind(cs.inner)])
ConfidentialStoreIterator_next(cs, it) ==
  ConfidentialStoreIterator_reset_and_load(cs,
    [it EXCEPT !.pos = Inner_next(cs.inner, it.pos)])
\* mkvs::Iterator::seek on an iterator in any position.
ConfidentialStoreIterator_seek_from(cs, it, key) ==
  ConfidentialStoreIterator_reset_and_load(cs,
    [it EXCEPT !.pos = Inner_seek_pos(cs.inner, make_key(cs.key, key).key)])
\* std::iter::Iterator::next: [it, item].  The inner iterator's next hands
\* out the entry under its cursor and moves the cursor on.
NoItem == [some |-> FALSE, key |-> Plain("", 0), value |-> Plain("", 0)]
Item(key, value) == [some |-> TRUE, key |-> key, value |-> value]
ConfidentialStoreIterator_std_next(cs, it) ==
  LET r == ConfidentialStoreIterator_reset(it)
  IN IF r.pos = 0 THEN [it |-> r, item |-> NoItem]
     ELSE LET l == ConfidentialStoreIterator_load(cs,
                     [r EXCEPT !.pos = Inner_next(cs.inner, r.pos)],
                     InnerEntries(cs.inner)[r.pos].key,
                     InnerEntries(cs.inner)[r.pos].value)
          IN IF ConfidentialStoreIterator_is_valid(l)
             THEN [it |-> l, item |-> Item(l.key.v, l.value.v)]
             ELSE [it |-> l, item |-> NoItem]

\* ------------------------------------------------------------- the machine
VARIABLES
  pc,          \* where the dispatcher is: idle, decode, messages, begin, txs,
               \* commit, done, failed, panicked, queried
  round,       \* number of the round being executed
  state,       \* the runtime state (MKVS) as the batch context sees it
  batch,       \* the raw batch handed to execute_batch
  txs,         \* the decoded transactions
  index,       \* number of transactions executed so far
  messages,    \* the batch context's emitted (message, hook) pairs
  block_tags,  \* the batch context's block tags
  results,     \* the per-transaction results collected so far
  ret,         \* what execute_batch returned
  events,      \* the round results' message events this batch was given
  invoked,     \* message result handlers invoked by this batch, in order
  sent,        \* the messages the previous round emitted, each with the hook
               \* it was emitted with (the host holds the messages)
  check,       \* the check_batch call of this round: its batch, its own
               \* context and the results it collected
  qret,        \* what the last query did: its method, what it returned and
               \* the state its context held before and after
  chain,       \* a hook of a module tuple being run: the modules' answers,
               \* the position reached and the modules invoked so far
  call,        \* a routine called outside a batch: its name, the input
               \* it was given and what it returned
  cstore       \* a confidential store: the entries of its inner store and
               \* what the last operation handed to the inner store and
               \* returned

vars == <<pc, round, state, batch, txs, index, messages, block_tags, results,
          ret, events, invoked, sent, check, qret, chain, call, cstore>>
\* What the dispatcher never touches, and what execute_batch never touches.
lib == <<call, cstore>>
aux == <<check, qret, chain, lib>>

\* What execute_batch returned; at is the index an error names (-1: none).
NoReturn ==
  [kind |-> "none", error |-> "", at |-> -1, results |-> <<>>,
   messages |-> <<>>, block_tags |-> <<>>]
ReturnErrAt(e, i) == [NoReturn EXCEPT !.kind = "Err", !.error = e, !.at = i]
ReturnErr(e) == ReturnErrAt(e, -1)
ReturnOk(res, msgs, tags) ==
  [kind |-> "Ok", error |-> "", at |-> -1, results |-> res, messages |-> msgs,
   block_tags |-> tags]

\* No check_batch call, no query and no tuple hook has run.
NoCheck ==
  [pc |-> "none", batch |-> <<>>, txs |-> <<>>, index |-> 0,
   state |-> GenesisState, messages |-> <<>>, results |-> <<>>,
   ret |-> NoReturn]
NoQuery ==
  [method |-> "", args |-> Args("cbor", TRUE, "k1", Alice), panic |-> NoPanic,
   raised |-> FALSE, escaped |-> FALSE, result |-> QueryOk(NoVal),
   before |-> GenesisState, after |-> GenesisState]
\* No hook of a module tuple is being run.  A chain is the hook, the
\* answer each module of the tuple gives when invoked, the body first handed
\* in and the body carried along, the modules invoked so far with the body
\* each was given, and what the tuple returned.
NoOut == [kind |-> "none", value |-> "", by |-> 0]
NoChain ==
  [hook |-> "", answers |-> <<>>, original |-> "", body |-> "",
   invoked |-> <<>>, given |-> <<>>, out |-> NoOut]

\* No routine has been called and no confidential store is open.
NoCall == [fn |-> "none"]
NoStore == [open |-> FALSE]

Start(st, ch) ==
  /\ pc = "idle"
  /\ round = 0
  /\ state = st
  /\ batch = <<>>
  /\ txs = <<>>
  /\ index = 0
  /\ messages = <<>>
  /\ block_tags = <<>>
  /\ results = <<>>
  /\ ret = NoReturn
  /\ events = <<>>
  /\ invoked = <<>>
  /\ sent = <<>>
  /\ check = NoCheck
  /\ qret = NoQuery
  /\ chain = ch
  /\ call = NoCall
  /\ cstore = NoStore

\* The state after construction: nothing has run on the genesis state.
Init == Start(GenesisState, NoChain)

\* execute_batch up to the migration: the host hands over a batch, the batch
\* context is created and the state migrated.
ExecuteBatchStart(T) ==
  /\ pc = "idle"
  /\ UNCHANGED aux
  /\ round < MaxRounds
  /\ \E b \in Batches(T) : batch' = b
  /\ state' = migrate(state)
  /\ pc' = "decode"
  /\ UNCHANGED <<round, txs, index, messages, block_tags, results, ret,
                 events, invoked, sent>>

\* DecodeBatch dropping the malformed transactions instead of failing.
DecodeBatch_drops_malformed ==
  /\ pc = "decode"
  /\ UNCHANGED aux
  /\ \E decoded \in {[i \in 1..Len(batch) |-> decode_tx(batch[i])]} :
        /\ pc' = "messages"
        /\ ret' = ret
        /\ txs' = LET oks == SelectSeq(decoded, LAMBDA d : d.ok)
                   IN [i \in 1..Len(oks) |-> oks[i].tx]
  /\ UNCHANGED <<round, state, batch, index, messages, block_tags, results,
                 events, invoked, sent>>

\* The decode loop of execute_batch: every transaction is decoded before
\* anything else happens; one malformed transaction fails the batch.
DecodeBatch ==
  /\ pc = "decode"
  /\ UNCHANGED aux
  /\ \E decoded \in {[i \in 1..Len(batch) |-> decode_tx(batch[i])]} :
        IF \E i \in 1..Len(batch) : ~decoded[i].ok
        THEN /\ pc' = "failed"
             /\ ret' = ReturnErr("MalformedTransactionInBatch")
             /\ txs' = txs
        ELSE /\ pc' = "messages"
             /\ ret' = ret
             /\ txs' = [i \in 1..Len(batch) |-> decoded[i].tx]
  /\ UNCHANGED <<round, state, batch, index, messages, block_tags, results,
                 events, invoked, sent>>

\* The results of the previous round's messages are handled; R is what the
\* host may report as the round results' message events.
HandleLastRoundMessages(R) ==
  /\ pc = "messages"
  /\ UNCHANGED aux
  /\ \E message_events \in R :
       \E h \in {handle_last_round_messages(
                   [state |-> state, tags |-> block_tags, panic |-> FALSE],
                   message_events)} :
          /\ state' = h.bc.state
          /\ block_tags' = h.bc.tags
          /\ events' = message_events
          /\ invoked' = h.invoked
          /\ IF h.bc.panic
             THEN pc' = "panicked" /\ ret' = ret
             ELSE IF ~h.ok
             THEN pc' = "failed" /\ ret' = ReturnErrAt(h.error, h.at)
             ELSE pc' = "begin" /\ ret' = ret
  /\ UNCHANGED <<round, batch, txs, index, messages, results, sent>>

\* Modules::begin_block
BeginBlock ==
  /\ pc = "begin"
  /\ UNCHANGED aux
  /\ pc' = "txs"
  /\ index' = 0
  /\ events' = <<>>
  /\ invoked' = <<>>
  /\ UNCHANGED <<round, state, batch, txs, messages, block_tags, results, ret,
                 sent>>

\* The execution loop taking the transactions from the end of the batch.
ExecuteTx_last_first ==
  /\ pc = "txs"
  /\ UNCHANGED aux
  /\ index < Len(txs)
  /\ \E d \in {dispatch_tx([state |-> state, messages |-> messages,
                             check_only |-> FALSE, round |-> round],
                            txs[Len(txs) - index], index)} :
        IF d.err
        THEN /\ pc' = "failed"
             /\ ret' = ReturnErr(d.error)
             /\ UNCHANGED <<results, index>>
             /\ state' = d.state
             /\ messages' = d.messages
        ELSE /\ results' = Append(results, execute_tx(d))
             /\ index' = index + 1
             /\ state' = d.state
             /\ messages' = d.messages
             /\ UNCHANGED <<pc, ret>>
  /\ UNCHANGED <<round, batch, txs, block_tags, events, invoked, sent>>

\* One turn of the execution loop: execute_tx on the next transaction.
ExecuteTx ==
  /\ pc = "txs"
  /\ UNCHANGED aux
  /\ index < Len(txs)
  /\ \E d \in {dispatch_tx([state |-> state, messages |-> messages,
                             check_only |-> FALSE, round |-> round],
                            txs[index + 1], index)} :
        IF d.err
        THEN /\ pc' = "failed"
             /\ ret' = ReturnErr(d.error)
             /\ UNCHANGED <<results, index>>
             /\ state' = d.state
             /\ messages' = d.messages
        ELSE /\ results' = Append(results, execute_tx(d))
             /\ index' = index + 1
             /\ state' = d.state
             /\ messages' = d.messages
             /\ UNCHANGED <<pc, ret>>
  /\ UNCHANGED <<round, batch, txs, block_tags, events, invoked, sent>>

\* Modules::end_block and the block weight limits.
EndBlock ==
  /\ pc = "txs"
  /\ UNCHANGED aux
  /\ index = Len(txs)
  /\ pc' = "commit"
  /\ UNCHANGED <<round, state, batch, txs, index, messages, block_tags,
                 results, ret, events, invoked, sent>>

\* The batch context is committed, the handlers of the emitted messages are
\* persisted and execute_batch returns.
CommitBatch ==
  /\ pc = "commit"
  /\ UNCHANGED aux
  /\ LET wire_messages == [i \in 1..Len(messages) |-> messages[i].msg]
         handlers == [i \in 1..Len(messages) |-> messages[i].hook]
     IN /\ state' = save_emitted_message_handlers(state, handlers)
        /\ ret' = ReturnOk(results, wire_messages, block_tags)
  /\ pc' = "done"
  /\ UNCHANGED <<round, batch, txs, index, messages, block_tags, results,
                 events, invoked, sent>>

\* The host takes the result and moves on to the next round.
NextRound ==
  /\ pc = "done"
  /\ pc' = "idle"
  /\ round' = round + 1
  /\ batch' = <<>>
  /\ txs' = <<>>
  /\ index' = 0
  /\ messages' = <<>>
  /\ block_tags' = <<>>
  /\ results' = <<>>
  /\ ret' = NoReturn
  /\ events' = <<>>
  /\ invoked' = <<>>
  /\ sent' = messages
  /\ check' = NoCheck
  /\ UNCHANGED <<state, qret, chain, lib>>

\* ------------------------------------------------------------- check_batch
\* The index check_tx hands to dispatch_tx: usize::MAX, here the largest
\* integer of the model.
usize_MAX == 2147483647

\* CheckTxResult {error, meta}: error.err = "" is the default (no error).
CheckTxResult(module, err, has_meta, priority, weights) ==
  [error |-> [module |-> module, err |-> err],
   meta |-> [some |-> has_meta, priority |-> priority, weights |-> weights]]
\* check_tx reporting every outcome as an error.
check_tx_drops_ok(d) ==
  CheckTxResult(d.result.result.module, d.result.result.err, FALSE, 0, 0)
\* Dispatcher::check_tx on the outcome d of dispatch_tx (d.err is the
\* propagated abort, handled by the caller).
check_tx(d) ==
  IF d.result.result.kind = "Ok"
  THEN CheckTxResult("", "", TRUE, d.result.priority, d.result.weights)
  ELSE CheckTxResult(d.result.result.module, d.result.result.err, FALSE, 0, 0)

\* check_batch up to the migration: a batch context of its own is created
\* over the state and migrated.
CheckBatchStart(T) ==
  /\ pc = "idle"
  /\ check.pc = "none"
  /\ round < MaxRounds
  /\ \E b \in Batches(T) :
       check' = [NoCheck EXCEPT !.pc = "decode", !.batch = b,
                                !.state = migrate(state)]
  /\ UNCHANGED <<pc, round, state, batch, txs, index, messages, block_tags,
                 results, ret, events, invoked, sent, qret, chain, lib>>

\* The decode loop of check_batch: a transaction that does not decode is
\* kept as its error.
CheckDecode ==
  /\ check.pc = "decode"
  /\ check' = [check EXCEPT
                 !.pc = "txs",
                 !.txs = [i \in 1..Len(check.batch) |-> decode_tx(check.batch[i])]]
  /\ UNCHANGED <<pc, round, state, batch, txs, index, messages, block_tags,
                 results, ret, events, invoked, sent, qret, chain, lib>>

\* check_batch ending, as execute_batch does, with the handlers of the
\* messages of its context written into the state.
CheckTx_saves_handlers ==
  /\ check.pc = "txs"
  /\ IF check.index = Len(check.txs)
     THEN check' = [check EXCEPT !.pc = "returned",
                                 !.ret = ReturnOk(check.results, <<>>, <<>>)]
     ELSE \E t \in {check.txs[check.index + 1]} :
       IF ~t.ok
       THEN check' = [check EXCEPT
                        !.index = @ + 1,
                        !.results = Append(@, CheckTxResult(t.error.module,
                                                 t.error.err, FALSE, 0, 0))]
       ELSE \E d \in {dispatch_tx([state |-> check.state,
                                     messages |-> check.messages,
                                     check_only |-> TRUE, round |-> round],
                                    t.tx, usize_MAX)} :
              IF d.err
              THEN check' = [check EXCEPT !.pc = "failed",
                                          !.ret = ReturnErr(d.error),
                                          !.state = d.state,
                                          !.messages = d.messages]
              ELSE check' = [check EXCEPT !.index = @ + 1,
                                          !.results = Append(@, check_tx(d)),
                                          !.state = d.state,
                                          !.messages = d.messages]
  /\ state' = IF check.index = Len(check.txs)
              THEN save_emitted_message_handlers(state,
                     [i \in 1..Len(check.messages) |-> check.messages[i].hook])
              ELSE state
  /\ UNCHANGED <<pc, round, batch, txs, index, messages, block_tags,
                 results, ret, events, invoked, sent, qret, chain, lib>>

\* One turn of the check loop, or its end: check_tx on the next decoded
\* transaction, the error of one that did not decode, Ok(results) after
\* the last one.
CheckTx ==
  /\ check.pc = "txs"
  /\ IF check.index = Len(check.txs)
     THEN check' = [check EXCEPT !.pc = "returned",
                                 !.ret = ReturnOk(check.results, <<>>, <<>>)]
     ELSE \E t \in {check.txs[check.index + 1]} :
       IF ~t.ok
       THEN check' = [check EXCEPT
                        !.index = @ + 1,
                        !.results = Append(@, CheckTxResult(t.error.module,
                                                 t.error.err, FALSE, 0, 0))]
       ELSE \E d \in {dispatch_tx([state |-> check.state,
                                     messages |-> check.messages,
                                     check_only |-> TRUE, round |-> round],
                                    t.tx, usize_MAX)} :
              IF d.err
              THEN check' = [check EXCEPT !.pc = "failed",
                                          !.ret = ReturnErr(d.error),
                                          !.state = d.state,
                                          !.messages = d.messages]
              ELSE check' = [check EXCEPT !.index = @ + 1,
                                          !.results = Append(@, check_tx(d)),
                                          !.state = d.state,
                                          !.messages = d.messages]
  /\ UNCHANGED <<pc, round, state, batch, txs, index, messages, block_tags,
                 results, ret, events, invoked, sent, qret, chain, lib>>

\* The host runs execute_batch on the batch it has checked, from the state
\* it handed to check_batch.
ExecuteCheckedBatch ==
  /\ check.pc \in {"returned", "failed"}
  /\ batch' = check.batch
  /\ ExecuteBatchStart(Range(check.batch))

\* ------------------------------------------------------------------- query
\* Dispatcher::query: a batch context of its own is created over the state
\* and dispatch_query runs in it; qret keeps the state the context held
\* before and after.  Nothing but the result goes back to the host.
Query ==
  /\ pc = "idle"
  /\ check.pc = "none"
  /\ \E method \in QueryMethods, args \in QueryArgs, panic \in PanicPoints :
       \E q \in {dispatch_query(state, method, args, panic)} :
         qret' = [method |-> method, args |-> args, panic |-> panic,
                  raised |-> q.raised, escaped |-> q.escaped,
                  result |-> q.result, before |-> state, after |-> q.st]
  /\ pc' = "queried"
  /\ UNCHANGED <<round, state, batch, txs, index, messages, block_tags,
                 results, ret, events, invoked, sent, check, chain, lib>>

\* The host takes the result of the query.
QueryReturn ==
  /\ pc = "queried"
  /\ pc' = "idle"
  /\ qret' = NoQuery
  /\ UNCHANGED <<round, state, batch, txs, index, messages, block_tags,
                 results, ret, events, invoked, sent, check, chain, lib>>

\* ------------------------------------------------- a tuple of any modules
\* The hooks the tuple chains, and what a module may answer to each.
MethodHooks ==
  {"prefetch", "dispatch_call", "dispatch_query", "dispatch_message_result"}
AuthHooks == {"approve_unverified_tx", "authenticate_tx", "before_handle_call"}
Hooks == MethodHooks \cup AuthHooks \cup {"decode_tx"}
Answers(hook) ==
  CASE hook \in MethodHooks -> {"Handled", "Unhandled"}
    [] hook \in AuthHooks -> {"Ok", "Err"}
    [] OTHER -> {"Some", "None", "Err"}
Bodies == {"body-a", "body-b"}

\* What the i-th module hands back when invoked with body: Handled(result)
\* or Unhandled(body) with the body it was given; Ok(()) or Err(e);
\* Ok(Some(tx)), Ok(None) or Err(e).  `by` names the module that answered.
ModuleAnswer(c, i, body) ==
  IF c.answers[i] = "Unhandled"
  THEN [kind |-> "Unhandled", value |-> body, by |-> i]
  ELSE [kind |-> c.answers[i], value |-> "", by |-> i]

\* The tuples of one to MaxModules modules, each with a hook about to run.
Chains ==
  UNION { { [NoChain EXCEPT !.hook = h, !.answers = a, !.original = b, !.body = b] :
              b \in Bodies, a \in SeqsUpTo(Answers(h), MaxModules) \ {<<>>} } :
          h \in Hooks }

\* The next module's turn: it is invoked with the body carried along.
Invoke(c) ==
  With(ModuleAnswer(c, Len(c.invoked) + 1, c.body), LAMBDA r :
    [answer |-> r,
     chain |-> [c EXCEPT !.invoked = Append(@, Len(c.invoked) + 1),
                         !.given = Append(@, c.body)]])

\* The turn of a MethodHandler hook going on after a module has handled the
\* method: the last module that handles it wins.
TupleMethodHandler_last_wins ==
  /\ chain.hook \in MethodHooks
  /\ Len(chain.invoked) < Len(chain.answers)
  /\ \E t \in {Invoke(chain)} :
       chain' = IF t.answer.kind = "Handled"
                THEN [t.chain EXCEPT !.out =
                        IF Len(t.chain.invoked) = Len(chain.answers)
                        THEN t.answer ELSE chain.out]
                ELSE [t.chain EXCEPT !.body = t.answer.value]
  /\ UNCHANGED <<pc, round, state, batch, txs, index, messages, block_tags,
                 results, ret, events, invoked, sent, check, qret, lib>>

\* impl MethodHandler for Tuple, one module's turn of prefetch,
\* dispatch_call, dispatch_query or dispatch_message_result: Handled returns,
\* Unhandled(body) hands the body on.
TupleMethodHandler ==
  /\ chain.hook \in MethodHooks
  /\ chain.out.kind = "none"
  /\ Len(chain.invoked) < Len(chain.answers)
  /\ \E t \in {Invoke(chain)} :
       chain' = IF t.answer.kind = "Handled"
                THEN [t.chain EXCEPT !.out = t.answer]
                ELSE [t.chain EXCEPT !.body = t.answer.value]
  /\ UNCHANGED <<pc, round, state, batch, txs, index, messages, block_tags,
                 results, ret, events, invoked, sent, check, qret, lib>>

\* impl AuthHandler for Tuple, one module's turn of approve_unverified_tx,
\* authenticate_tx or before_handle_call: `Tuple::hook(..)?`.
TupleAuthHandler ==
  /\ chain.hook \in AuthHooks
  /\ chain.out.kind = "none"
  /\ Len(chain.invoked) < Len(chain.answers)
  /\ \E t \in {Invoke(chain)} :
       chain' = IF t.answer.kind = "Err"
                THEN [t.chain EXCEPT !.out = t.answer]
                ELSE t.chain
  /\ UNCHANGED <<pc, round, state, batch, txs, index, messages, block_tags,
                 results, ret, events, invoked, sent, check, qret, lib>>

\* The turn of decode_tx taking a module's error for Ok(None).
TupleDecodeTx_skips_error ==
  /\ chain.hook = "decode_tx"
  /\ chain.out.kind = "none"
  /\ Len(chain.invoked) < Len(chain.answers)
  /\ \E t \in {Invoke(chain)} :
       chain' = IF t.answer.kind = "Some"
                THEN [t.chain EXCEPT !.out = t.answer]
                ELSE t.chain
  /\ UNCHANGED <<pc, round, state, batch, txs, index, messages, block_tags,
                 results, ret, events, invoked, sent, check, qret, lib>>

\* impl AuthHandler for Tuple, one module's turn of decode_tx: an error
\* returns (`?`), Some returns, None goes on.
TupleDecodeTx ==
  /\ chain.hook = "decode_tx"
  /\ chain.out.kind = "none"
  /\ Len(chain.invoked) < Len(chain.answers)
  /\ \E t \in {Invoke(chain)} :
       chain' = IF t.answer.kind \in {"Err", "Some"}
                THEN [t.chain EXCEPT !.out = t.answer]
                ELSE t.chain
  /\ UNCHANGED <<pc, round, state, batch, txs, index, messages, block_tags,
                 results, ret, events, invoked, sent, check, qret, lib>>

\* The end of the chain: Unhandled(body) with the body carried along,
\* Ok(()), or Ok(None).
TupleReturn ==
  /\ chain.hook # ""
  /\ chain.out.kind = "none"
  /\ Len(chain.invoked) = Len(chain.answers)
  /\ chain' = [chain EXCEPT !.out =
                 CASE chain.hook \in MethodHooks ->
                        [kind |-> "Unhandled", value |-> chain.body, by |-> 0]
                   [] chain.hook \in AuthHooks ->
                        [kind |-> "Ok", value |-> "", by |-> 0]
                   [] OTHER -> [kind |-> "None", value |-> "", by |-> 0]]
  /\ UNCHANGED <<pc, round, state, batch, txs, index, messages, block_tags,
                 results, ret, events, invoked, sent, check, qret, lib>>

\* A hook of a tuple of modules, for every tuple and every way its modules
\* may answer.
InitTuple == \E ch \in Chains : Start(GenesisState, ch)
NextTuple ==
  \/ TupleMethodHandler
  \/ TupleAuthHandler
  \/ TupleDecodeTx
  \/ TupleReturn

SpecTuple == InitTuple /\ [][NextTuple]_vars

\* ------------------------------------------------------ recorded versions
\* The states a runtime may be started on: for each module any recorded
\* version up to MaxVersion, and either no stored parameters at all or
\* parameters stored earlier that differ from the genesis ones.
OldParameters ==
  [insert_absent |-> 1, insert_existing |-> 1, remove_absent |-> 1,
   remove_existing |-> 1, tx_deposit |-> 1, tx_withdraw |-> 1]
RecordedStates ==
  { [GenesisState EXCEPT !.versions = v, !.params = p] :
      v \in [ModuleNames -> 0..MaxVersion],
      p \in { [m \in ModuleNames |-> NoParameters],
               [m \in ModuleNames |-> StoredParameters(OldParameters)] } }
InitVersions == \E st \in RecordedStates : Start(st, NoChain)

\* The three entry points, each of which migrates first, on any such state.
VersionTxs == { InsertTx }
NextVersions ==
  \/ Query
  \/ QueryReturn
  \/ CheckBatchStart(VersionTxs)
  \/ CheckDecode
  \/ CheckTx
  \/ ExecuteCheckedBatch
  \/ DecodeBatch
  \/ HandleLastRoundMessages(RoundResults(Len(sent)))
  \/ BeginBlock
  \/ ExecuteTx
  \/ EndBlock
  \/ CommitBatch
  \/ NextRound

SpecVersions == InitVersions /\ [][NextVersions]_vars

\* The dispatcher on batches of the dispatch paths, with a host that keeps
\* its contract.
Next ==
  \/ ExecuteBatchStart(DispatchTxs)
  \/ DecodeBatch
  \/ HandleLastRoundMessages(RoundResults(Len(sent)))
  \/ BeginBlock
  \/ ExecuteTx
  \/ EndBlock
  \/ CommitBatch
  \/ NextRound

Spec == Init /\ [][Next]_vars

\* The dispatcher on batches of every wire form and keyvalue call.
NextWire ==
  \/ ExecuteBatchStart(WireTxs)
  \/ DecodeBatch
  \/ HandleLastRoundMessages(RoundResults(Len(sent)))
  \/ BeginBlock
  \/ ExecuteTx
  \/ EndBlock
  \/ CommitBatch
  \/ NextRound

SpecWire == Init /\ [][NextWire]_vars

\* The dispatcher with a host that may report any list of message events.
NextHost ==
  \/ ExecuteBatchStart(HostTxs)
  \/ DecodeBatch
  \/ HandleLastRoundMessages(AnyRoundResults(Len(sent)))
  \/ BeginBlock
  \/ ExecuteTx
  \/ EndBlock
  \/ CommitBatch
  \/ NextRound

SpecHost == Init /\ [][NextHost]_vars

\* The host checks a batch with check_batch and then executes it.
NextCheck ==
  \/ CheckBatchStart(CheckTxs)
  \/ CheckDecode
  \/ CheckTx
  \/ ExecuteCheckedBatch
  \/ DecodeBatch
  \/ HandleLastRoundMessages(RoundResults(Len(sent)))
  \/ BeginBlock
  \/ ExecuteTx
  \/ EndBlock
  \/ CommitBatch
  \/ NextRound

SpecCheck == Init /\ [][NextCheck]_vars

\* check_batch with the prefetch.  Tuple::prefetch returns what the first
\* module that handles the method returns: consensus accounts has nothing
\* to fail on; hinted is what the prefetch of the runtime's other modules
\* makes of the call, "unhandled" by default.
PrefetchOutcomes == {"unhandled", "ok", "failed"}
Tuple_prefetch(tx, hinted) ==
  IF tx.method \in {"consensus.Deposit", "consensus.Withdraw"} THEN "ok"
  ELSE hinted
\* Dispatcher::prefetch_tx: [ok, error]; an unimplemented prefetch is
\* allowed.
prefetch_tx(tx, hinted) ==
  IF Tuple_prefetch(tx, hinted) = "failed"
  THEN [ok |-> FALSE, error |-> Error("core", "InvalidArgument")]
  ELSE [ok |-> TRUE, error |-> NoError]
\* The first loop of check_batch on one transaction: [ok, tx, error].
check_batch_decode(utx, prefetch_enabled, hinted) ==
  With(decode_tx(utx), LAMBDA d :
    IF ~d.ok THEN d
    ELSE IF prefetch_enabled
    THEN With(prefetch_tx(d.tx, hinted), LAMBDA p :
           IF p.ok THEN d ELSE Malformed(d.tx, p.error))
    ELSE d)
\* The first loop returning at the first transaction that fails, as the one
\* of execute_batch does.
CheckPrefetch_fails_batch ==
  /\ check.pc = "decode"
  /\ \E prefetch_enabled \in BOOLEAN, hinted \in PrefetchOutcomes :
       \E decoded \in {[i \in 1..Len(check.batch) |->
                          check_batch_decode(check.batch[i], prefetch_enabled,
                                             hinted)]} :
         check' =
           IF \E i \in 1..Len(decoded) : ~decoded[i].ok
           THEN [check EXCEPT
                   !.pc = "failed", !.txs = decoded,
                   !.ret = ReturnErr(
                     decoded[CHOOSE i \in 1..Len(decoded) :
                               /\ ~decoded[i].ok
                               /\ \A j \in 1..(i - 1) : decoded[j].ok].error)]
           ELSE [check EXCEPT !.pc = "txs", !.txs = decoded]
  /\ UNCHANGED <<pc, round, state, batch, txs, index, messages, block_tags,
                 results, ret, events, invoked, sent, qret, chain, lib>>
CheckPrefetch ==
  /\ check.pc = "decode"
  /\ \E prefetch_enabled \in BOOLEAN, hinted \in PrefetchOutcomes :
       check' = [check EXCEPT
                   !.pc = "txs",
                   !.txs = [i \in 1..Len(check.batch) |->
                              check_batch_decode(check.batch[i],
                                                 prefetch_enabled, hinted)]]
  /\ UNCHANGED <<pc, round, state, batch, txs, index, messages, block_tags,
                 results, ret, events, invoked, sent, qret, chain, lib>>
NextPrefetch ==
  \/ CheckBatchStart(CheckTxs)
  \/ CheckPrefetch
  \/ CheckTx

SpecPrefetch == Init /\ [][NextPrefetch]_vars

\* A round that follows one in which a deposit and a module the runtime no
\* longer has emitted messages: their hooks are the persisted handlers, and
\* the host may report any list of message events.
DepositHook == HookInvocation(CONSENSUS_WITHDRAW_HANDLER, Alice, 1, Alice, 2, 0)
ForeignHook == HookInvocation("foreign.Hook", Alice, 1, Alice, 2, 0)
PersistedHooks == SeqsUpTo({DepositHook, ForeignHook}, MaxMessages) \ {<<>>}
InitHooks ==
  \E hooks \in PersistedHooks :
    /\ pc = "idle"
    /\ round = 0
    /\ state = save_emitted_message_handlers(GenesisState, hooks)
    /\ batch = <<>>
    /\ txs = <<>>
    /\ index = 0
    /\ messages = <<>>
    /\ block_tags = <<>>
    /\ results = <<>>
    /\ ret = NoReturn
    /\ events = <<>>
    /\ invoked = <<>>
    /\ sent = [i \in 1..Len(hooks) |->
                 [msg |-> Message("staking.Withdraw", Alice, 1),
                  hook |-> hooks[i]]]
    /\ check = NoCheck
    /\ qret = NoQuery
    /\ chain = NoChain
    /\ call = NoCall
    /\ cstore = NoStore
HookTxs == { InsertTx }
NextHooks ==
  \/ ExecuteBatchStart(HookTxs)
  \/ DecodeBatch
  \/ HandleLastRoundMessages(AnyRoundResults(Len(sent)))
  \/ BeginBlock
  \/ ExecuteTx
  \/ EndBlock
  \/ CommitBatch
  \/ NextRound

SpecHooks == InitHooks /\ [][NextHooks]_vars

\* Deposits and the results of their Withdraw messages, with a host that
\* keeps its contract.
DepositTxs == { DepositTx, DepositToTx }
NextDeposit ==
  \/ ExecuteBatchStart(DepositTxs)
  \/ DecodeBatch
  \/ HandleLastRoundMessages(RoundResults(Len(sent)))
  \/ BeginBlock
  \/ ExecuteTx
  \/ EndBlock
  \/ CommitBatch
  \/ NextRound

SpecDeposit == Init /\ [][NextDeposit]_vars

\* Withdrawals and the results of their Transfer messages, with a host that
\* keeps its contract.
WithdrawTxs ==
  { WithdrawTx, WithdrawToTx, OddWithdrawTx, OverdrawTx, NoGasOverdrawTx }
NextWithdraw ==
  \/ ExecuteBatchStart(WithdrawTxs)
  \/ DecodeBatch
  \/ HandleLastRoundMessages(RoundResults(Len(sent)))
  \/ BeginBlock
  \/ ExecuteTx
  \/ EndBlock
  \/ CommitBatch
  \/ NextRound

SpecWithdraw == Init /\ [][NextWithdraw]_vars

\* Deposits and withdrawals in the same rounds, with a host that keeps its
\* contract.
AccountsTxs == { DepositTx, WithdrawTx }
NextAccounts ==
  \/ ExecuteBatchStart(AccountsTxs)
  \/ DecodeBatch
  \/ HandleLastRoundMessages(RoundResults(Len(sent)))
  \/ BeginBlock
  \/ ExecuteTx
  \/ EndBlock
  \/ CommitBatch
  \/ NextRound

SpecAccounts == Init /\ [][NextAccounts]_vars

\* The host checks and then executes batches of deposits and withdrawals.
CheckAccountsTxs == { DepositTx, OddDepositTx, OverdrawTx, NoGasOverdrawTx }
NextCheckAccounts ==
  \/ CheckBatchStart(CheckAccountsTxs)
  \/ CheckDecode
  \/ CheckTx
  \/ ExecuteCheckedBatch
  \/ DecodeBatch
  \/ HandleLastRoundMessages(RoundResults(Len(sent)))
  \/ BeginBlock
  \/ ExecuteTx
  \/ EndBlock
  \/ CommitBatch
  \/ NextRound

SpecCheckAccounts == Init /\ [][NextCheckAccounts]_vars

\* The invariants of the consensus accounts module are checked on what the
\* context holds.
CheckInvariants ==
  /\ call = NoCall
  /\ \E in \in InvariantInputs :
       call' = [fn |-> "check_invariants", in |-> in, out |-> check_invariants(in)]
  /\ UNCHANGED <<pc, round, state, batch, txs, index, messages, block_tags,
                 results, ret, events, invoked, sent, check, qret, chain,
                 cstore>>
\* The caller takes the result.
CallReturn ==
  /\ call # NoCall
  /\ call' = NoCall
  /\ UNCHANGED <<pc, round, state, batch, txs, index, messages, block_tags,
                 results, ret, events, invoked, sent, check, qret, chain,
                 cstore>>
NextInvariants == CheckInvariants \/ CallReturn

SpecInvariants == Init /\ [][NextInvariants]_vars

\* ConfidentialStore::new_with_key_pair over an empty inner store.  `written`
\* and `replaced` are the history of the store: for every plaintext key the
\* value last inserted and not removed since, and whether the last
\* operation was an insert of a key that was written already.
OpenStore ==
  /\ cstore = NoStore
  /\ cstore' = [open |-> TRUE, key |-> StateKey, inner |-> {},
                op |-> "new", arg |-> Plain("", 0), handed |-> <<>>,
                ret |-> Absent, it |-> NoIter, panic |-> FALSE,
                written |-> [k \in PlainKeys |-> Absent],
                replaced |-> FALSE]
  /\ UNCHANGED <<pc, round, state, batch, txs, index, messages, block_tags,
                 results, ret, events, invoked, sent, check, qret, chain, call>>
StoreGet ==
  /\ cstore.open /\ ~cstore.panic
  /\ \E key \in PlainKeys :
       \E r \in {ConfidentialStore_get(cstore, key)} :
         cstore' = [cstore EXCEPT !.op = "get", !.arg = key,
                                  !.handed = r.handed, !.ret = r.ret,
                                  !.panic = r.panic, !.it = NoIter,
                                  !.replaced = FALSE]
  /\ UNCHANGED <<pc, round, state, batch, txs, index, messages, block_tags,
                 results, ret, events, invoked, sent, check, qret, chain, call>>
StoreInsert ==
  /\ cstore.open /\ ~cstore.panic
  /\ \E key \in PlainKeys, value \in PlainValues :
       \E r \in {ConfidentialStore_insert(cstore, key, value)} :
         cstore' = [cstore EXCEPT !.op = "insert", !.arg = key,
                                  !.inner = r.inner, !.handed = r.handed,
                                  !.ret = r.ret, !.it = NoIter,
                                  !.written[key] = Found(value),
                                  !.replaced = cstore.written[key].some]
  /\ UNCHANGED <<pc, round, state, batch, txs, index, messages, block_tags,
                 results, ret, events, invoked, sent, check, qret, chain, call>>
StoreRemove ==
  /\ cstore.open /\ ~cstore.panic
  /\ \E key \in PlainKeys :
       \E r \in {ConfidentialStore_remove(cstore, key)} :
         cstore' = [cstore EXCEPT !.op = "remove", !.arg = key,
                                  !.inner = r.inner, !.handed = r.handed,
                                  !.ret = r.ret, !.it = NoIter,
                                  !.written[key] = Absent, !.replaced = FALSE]
  /\ UNCHANGED <<pc, round, state, batch, txs, index, messages, block_tags,
                 results, ret, events, invoked, sent, check, qret, chain, call>>
\* iter() and a seek of the new iterator.
StoreSeek ==
  /\ cstore.open /\ ~cstore.panic
  /\ \E key \in PlainKeys :
       \E r \in {ConfidentialStoreIterator_seek(cstore, key)} :
         cstore' = [cstore EXCEPT !.op = "seek", !.arg = key,
                                  !.handed = r.handed, !.ret = r.it.value,
                                  !.it = r.it, !.replaced = FALSE]
  /\ UNCHANGED <<pc, round, state, batch, txs, index, messages, block_tags,
                 results, ret, events, invoked, sent, check, qret, chain, call>>
NextStore ==
  \/ OpenStore
  \/ StoreGet
  \/ StoreInsert
  \/ StoreRemove
  \/ StoreSeek

SpecStore == Init /\ [][NextStore]_vars

\* ---------------------------------------------------------------------
\* #[derive(Error)]: the codes of the variants of an error enum.
\* ---------------------------------------------------------------------

\* ErrorVariant: its explicit code and its transparent and abort flags.
ErrorVariant(code, transparent, abort) ==
  [code |-> code, transparent |-> transparent, abort |-> abort]
ErrorVariants ==
  {ErrorVariant(None, FALSE, FALSE), ErrorVariant(None, TRUE, FALSE),
   ErrorVariant(None, FALSE, TRUE)}
    \cup {ErrorVariant(Some(c), FALSE, FALSE) : c \in 0..MaxCode}
ErrorEnums == SeqsUpTo(ErrorVariants, MaxVariants)

\* The match arm generated for one variant: a literal code, the code of the
\* source error, or nothing after an error was emitted.
CodeArm(c) == [arm |-> "code", code |-> c]
SourceArm == [arm |-> "source", code |-> 0]
NoArm == [arm |-> "none", code |-> 0]

\* The walk of reserved_numbers.range(next_autonumber..): the first number
\* from next_autonumber on that is not reserved.
RECURSIVE reserved_successors(_, _)
reserved_successors(reserved_numbers, next_autonumber) ==
  IF next_autonumber \in reserved_numbers
  THEN reserved_successors(reserved_numbers, next_autonumber + 1)
  ELSE next_autonumber

\* The state of the closure over the variants.
Numbering(next_autonumber, reserved_numbers, arms, errors) ==
  [next_autonumber |-> next_autonumber, reserved_numbers |-> reserved_numbers,
   arms |-> arms, errors |-> errors]

convert_variant_without_reserving(n, variant, autonumber) ==
  IF variant.transparent
  THEN [n EXCEPT !.arms = Append(@, SourceArm)]
  ELSE IF variant.code.some
  THEN IF variant.code.v \in n.reserved_numbers
       THEN [n EXCEPT !.arms = Append(@, NoArm),
                      !.errors = Append(@, "code already used")]
       ELSE [n EXCEPT !.arms = Append(@, CodeArm(variant.code.v)),
                      !.reserved_numbers = @ \cup {variant.code.v}]
  ELSE IF autonumber
  THEN LET code == reserved_successors(n.reserved_numbers, n.next_autonumber)
       IN [n EXCEPT !.arms = Append(@, CodeArm(code)),
                    !.next_autonumber = code + 1]
  ELSE [n EXCEPT !.arms = Append(@, NoArm),
                 !.errors = Append(@, "missing code for variant")]
\* One variant of the closure of convert_variants.
convert_variant(n, variant, autonumber) ==
  IF variant.transparent
  THEN [n EXCEPT !.arms = Append(@, SourceArm)]
  ELSE IF variant.code.some
  THEN IF variant.code.v \in n.reserved_numbers
       THEN [n EXCEPT !.arms = Append(@, NoArm),
                      !.errors = Append(@, "code already used")]
       ELSE [n EXCEPT !.arms = Append(@, CodeArm(variant.code.v)),
                      !.reserved_numbers = @ \cup {variant.code.v}]
  ELSE IF autonumber
  THEN LET code == reserved_successors(n.reserved_numbers, n.next_autonumber)
       IN [n EXCEPT !.arms = Append(@, CodeArm(code)),
                    !.reserved_numbers = @ \cup {code},
                    !.next_autonumber = code + 1]
  ELSE [n EXCEPT !.arms = Append(@, NoArm),
                 !.errors = Append(@, "missing code for variant")]

RECURSIVE convert_each(_, _, _, _)
convert_each(n, variants, i, autonumber) ==
  IF i > Len(variants) THEN n
  ELSE convert_each(convert_variant(n, variants[i], autonumber),
                    variants, i + 1, autonumber)

\* convert_variants: the arms of code() and the errors emitted.  An enum
\* without variants has the code 0 and no arm; more than one abort variant
\* is an error and nothing is generated.
convert_variants(variants, autonumber) ==
  IF variants = <<>>
  THEN [arms |-> <<>>, errors |-> <<>>]
  ELSE IF Cardinality({i \in DOMAIN variants : variants[i].abort}) > 1
  THEN [arms |-> <<>>, errors |-> <<"multiple abort variants specified">>]
  ELSE LET n == convert_each(Numbering(0, {}, <<>>, <<>>), variants, 1,
                             autonumber)
       IN [arms |-> n.arms, errors |-> n.errors]

\* The compiler expands #[derive(Error)] on an enum.
DeriveError ==
  /\ call = NoCall
  /\ \E variants \in ErrorEnums, autonumber \in BOOLEAN :
       call' = [fn |-> "derive_error",
                in |-> [variants |-> variants, autonumber |-> autonumber],
                out |-> convert_variants(variants, autonumber)]
  /\ UNCHANGED <<pc, round, state, batch, txs, index, messages, block_tags,
                 results, ret, events, invoked, sent, check, qret, chain,
                 cstore>>
NextDerive == DeriveError \/ CallReturn

SpecDerive == Init /\ [][NextDerive]_vars

\* ---------------------------------------------------------------------
\* #[sdk::calls]: the handle_call function generated for a module.
\* ---------------------------------------------------------------------

\* A method name is a string of characters; the module of the generated
\* handler is "m", another module is "o", the module declares the handler
\* with the RPC name "A".
MethodChars == {"m", "o", "A", "X", "."}
Methods == SeqsUpTo(MethodChars, MaxMethodLen)
runtime_module_name == <<"m">>
other_module_name == <<"o">>
rpc_method_names == {<<"A">>}
CallArgs == {"args", "malformed-args"}

\* The index of the first pat in s from i on, or 0.
RECURSIVE find(_, _, _)
find(s, pat, i) ==
  IF i > Len(s) THEN 0
  ELSE IF s[i] = pat THEN i
  ELSE find(s, pat, i + 1)

\* str::splitn(n, pat): at most n parts, the last one holding the rest.
RECURSIVE splitn(_, _, _)
splitn(s, n, pat) ==
  IF n = 0 THEN <<>>
  ELSE IF n = 1 \/ find(s, pat, 1) = 0 THEN <<s>>
  ELSE <<SubSeq(s, 1, find(s, pat, 1) - 1)>>
         \o splitn(SubSeq(s, find(s, pat, 1) + 1, Len(s)), n - 1, pat)

\* DispatchResult: Handled(result), the args moved into the handler, or
\* Unhandled(args).
HandlerOk(handler, value) == [ok |-> TRUE, handler |-> handler, v |-> value]
HandlerErr(handler, error) == [ok |-> FALSE, handler |-> handler, v |-> error]
DispatchHandled(result) == [handled |-> TRUE, result |-> result, args |-> ""]
DispatchUnhandled(args) ==
  [handled |-> FALSE, result |-> HandlerErr(<<>>, ""), args |-> args]

\* One dispatch arm: decode the arguments, call the handler, encode the
\* result.
dispatch_arm(rpc_method_name, args) ==
  IF args = "malformed-args"
  THEN DispatchHandled(HandlerErr(rpc_method_name, "InvalidArgument"))
  ELSE DispatchHandled(HandlerOk(rpc_method_name, args))

\* The generated handle_call(ctx, method, args).
handle_call(method, args) ==
  LET method_parts == splitn(method, 1, ".")
  IN IF Len(method_parts) >= 1 /\ method_parts[1] = runtime_module_name
     THEN DispatchUnhandled(args)
     ELSE IF Len(method_parts) >= 2 /\ method_parts[2] \in rpc_method_names
     THEN dispatch_arm(method_parts[2], args)
     ELSE DispatchUnhandled(args)

\* The dispatcher hands a call to the module.
HandleCall ==
  /\ call = NoCall
  /\ \E method \in Methods, args \in CallArgs :
       call' = [fn |-> "handle_call",
                in |-> [method |-> method, args |-> args],
                out |-> handle_call(method, args)]
  /\ UNCHANGED <<pc, round, state, batch, txs, index, messages, block_tags,
                 results, ret, events, invoked, sent, check, qret, chain,
                 cstore>>
NextHandle == HandleCall \/ CallReturn

SpecHandle == Init /\ [][NextHandle]_vars

\* ---------------------------------------------------------------------
\* Dispatcher::decode_tx on single transactions.
\* ---------------------------------------------------------------------

\* Raw transactions: bytes that are no CBOR, a transaction the core module
\* does not approve, or an approved one; with valid or invalid signatures
\* or a single Module(scheme) proof, whose bytes would or would not pass
\* utx.verify(); with a body that the keyvalue module can or cannot decode.
DecodeProofs ==
  {Signature(TRUE), Signature(FALSE)}
    \cup {[ModuleProof(scheme) EXCEPT !.valid = valid] :
            scheme \in {SPECIAL_GREETING_SCHEME, "other.scheme"},
            valid \in BOOLEAN}
DecodeInputs ==
  {[GreetingTx EXCEPT !.wire = wire, !.proof = proof, !.body.valid = valid,
                      !.body.value = value, !.method = method] :
     wire \in {"garbage", "unapproved", "cbor"}, proof \in DecodeProofs,
     valid \in BOOLEAN, value \in {"hello", "v1"},
     method \in {"", "keyvalue.Insert"}}

\* The host hands one raw transaction to decode_tx.
DecodeTx ==
  /\ call = NoCall
  /\ \E utx \in DecodeInputs :
       call' = [fn |-> "decode_tx", in |-> utx, out |-> decode_tx(utx)]
  /\ UNCHANGED <<pc, round, state, batch, txs, index, messages, block_tags,
                 results, ret, events, invoked, sent, check, qret, chain,
                 cstore>>
NextDecode == DecodeTx \/ CallReturn

SpecDecode == Init /\ [][NextDecode]_vars

\* ---------------------------------------------------------------------
\* Dispatcher::dispatch_tx step by step: what it calls, in which order.
\* ---------------------------------------------------------------------

\* Transactions of every dispatch path, with and without a signer the
\* accounts module authenticates, and with fees of 0 to 2 gas.
AuthTxs ==
  {[tx EXCEPT !.auth = auth, !.gas = gas] :
     tx \in {InsertTx, RemoveTx, AbortingTx, WithdrawTx, UnknownMethodTx,
             BadEnvelopeTx, EmptyEnvelopeTx, GasOverflowTx},
     auth \in BOOLEAN, gas \in 0..2}

\* The batch context the execution loop hands to dispatch_tx.
BatchCtx ==
  [state |-> state, messages |-> messages, check_only |-> FALSE, round |-> round]
\* dispatch_tx at the call `at`, having made the calls of `trace`, with the
\* transaction context `ctx` once the scope is open.
Dispatching(tx, at, trace, ctx, out) ==
  [fn |-> "dispatch_tx", in |-> tx, at |-> at, trace |-> trace, ctx |-> ctx,
   out |-> out]
\* What dispatch_tx returns once the closure of with_tx has returned s.
after_with_tx(bc, s) ==
  IF s.result.result.kind = "Aborted"
  THEN [err |-> TRUE, error |-> s.result.result.err, result |-> s.result,
        state |-> s.state, messages |-> bc.messages]
  ELSE [err |-> FALSE, error |-> "", result |-> s.result, state |-> s.state,
        messages |-> emit_messages(bc.messages, s.messages)]

\* The dispatcher calls dispatch_tx on a decoded transaction.
DispatchTxStart ==
  /\ call = NoCall
  /\ \E tx \in AuthTxs :
       call' = Dispatching(tx, "authenticate_tx", <<>>,
                           with_tx(state, messages, tx, FALSE, round),
                           after_with_tx(BatchCtx, Discarded(state, CallOk)))
  /\ UNCHANGED <<pc, round, state, batch, txs, index, messages, block_tags,
                 results, ret, events, invoked, sent, check, qret, chain,
                 cstore>>
\* R::Modules::authenticate_tx opening the scope whatever the answer.
DispatchTxAuthenticate_then_scope ==
  /\ call.fn = "dispatch_tx" /\ call.at = "authenticate_tx"
  /\ call' = [call EXCEPT !.trace = Append(@, "authenticate_tx"),
                          !.at = "with_tx"]
  /\ UNCHANGED <<pc, round, state, batch, txs, index, messages, block_tags,
                 results, ret, events, invoked, sent, check, qret, chain,
                 cstore>>
\* R::Modules::authenticate_tx(ctx, &tx): an error returns at once.
DispatchTxAuthenticate ==
  /\ call.fn = "dispatch_tx" /\ call.at = "authenticate_tx"
  /\ \E auth \in {Tuple_authenticate_tx(1, call.in)} :
       IF ~auth.ok
       THEN call' = [call EXCEPT
                       !.trace = Append(@, "authenticate_tx"),
                       !.at = "return",
                       !.out = [err |-> FALSE, error |-> "",
                                result |-> DispatchResult(
                                  into_call_result(auth.error), <<>>, 0),
                                state |-> state, messages |-> messages]]
       ELSE call' = [call EXCEPT !.trace = Append(@, "authenticate_tx"),
                                 !.at = "with_tx"]
  /\ UNCHANGED <<pc, round, state, batch, txs, index, messages, block_tags,
                 results, ret, events, invoked, sent, check, qret, chain,
                 cstore>>
\* ctx.with_tx opens the scope and the closure decodes the call.
DispatchTxScope ==
  /\ call.fn = "dispatch_tx" /\ call.at = "with_tx"
  /\ \E d \in {decode_call(call.ctx, call.in, 0)} :
       IF d.ok /\ ~d.some
       THEN call' = [call EXCEPT
                       !.trace = Append(@, "with_tx"), !.at = "return",
                       !.out = after_with_tx(BatchCtx, Discarded(state, CallOk))]
       ELSE IF ~d.ok
       THEN call' = [call EXCEPT
                       !.trace = Append(@, "with_tx"), !.at = "return",
                       !.out = after_with_tx(BatchCtx,
                                 Discarded(state, into_call_result(d.error)))]
       ELSE call' = [call EXCEPT !.trace = Append(@, "with_tx"),
                                 !.at = "before_handle_call"]
  /\ UNCHANGED <<pc, round, state, batch, txs, index, messages, block_tags,
                 results, ret, events, invoked, sent, check, qret, chain,
                 cstore>>
\* dispatch_tx_call: R::Modules::before_handle_call(ctx, &call).
DispatchTxBefore ==
  /\ call.fn = "dispatch_tx" /\ call.at = "before_handle_call"
  /\ \E b \in {Tuple_before_handle_call(1, call.ctx)} :
       IF ~b.ok
       THEN call' = [call EXCEPT
                       !.trace = Append(@, "before_handle_call"),
                       !.at = "return",
                       !.out = after_with_tx(BatchCtx,
                                 Discarded(state, into_call_result(b.error)))]
       ELSE call' = [call EXCEPT !.trace = Append(@, "before_handle_call"),
                                 !.at = "dispatch_call"]
  /\ UNCHANGED <<pc, round, state, batch, txs, index, messages, block_tags,
                 results, ret, events, invoked, sent, check, qret, chain,
                 cstore>>
\* dispatch_tx_call: R::Modules::dispatch_call, and the end of the closure.
DispatchTxCall ==
  /\ call.fn = "dispatch_tx" /\ call.at = "dispatch_call"
  /\ \E d \in {Tuple_dispatch_call(1, call.ctx, call.in.method, call.in.body)} :
       \E result \in {IF d.handled THEN d.result
                      ELSE into_call_result(Error("core", "InvalidMethod"))} :
         call' = [call EXCEPT
                    !.trace = Append(@, "dispatch_call"), !.at = "return",
                    !.ctx = d.ctx,
                    !.out = after_with_tx(BatchCtx,
                              IF ~is_success(result)
                              THEN Discarded(state, result)
                              ELSE Committed(result, d.ctx))]
  /\ UNCHANGED <<pc, round, state, batch, txs, index, messages, block_tags,
                 results, ret, events, invoked, sent, check, qret, chain,
                 cstore>>
NextAuth ==
  \/ DispatchTxStart
  \/ DispatchTxAuthenticate
  \/ DispatchTxScope
  \/ DispatchTxBefore
  \/ DispatchTxCall
  \/ CallReturn

SpecAuth == Init /\ [][NextAuth]_vars

\* ---------------------------------------------------------------------
\* The iterator of a confidential store.
\* ---------------------------------------------------------------------

\* Inner entries that the store did not write: a raw key too short to hold
\* a nonce (first in the inner order), a value sealed under another nonce
\* at the stored key of a (in the middle or last), and a key sealed under
\* another state key (last).
ShortKeyEntry ==
  [key |-> Plain("s", 1), value |-> make_value(StateKey, Plain("v", 1), 2)]
BadValueEntry ==
  [key |-> make_key(StateKey, Plain("a", 1)).key,
   value |-> seal(StateKey, 1, Plain("v", 1), 1)]
ForeignKeyEntry ==
  [key |-> pack_key(seal("other", 3, Plain("b", 1), 3), 3),
   value |-> seal("other", 3, Plain("v", 1), 3)]
CorruptEntries == {ShortKeyEntry, BadValueEntry, ForeignKeyEntry}
\* The inner store after the inserts that leave `written`.
RECURSIVE InsertAll(_, _)
InsertAll(cs, written) ==
  IF \A k \in PlainKeys : ~written[k].some THEN cs.inner
  ELSE LET k == CHOOSE x \in PlainKeys : written[x].some
       IN InsertAll(
            [cs EXCEPT !.inner = ConfidentialStore_insert(cs, k, written[k].v).inner],
            [written EXCEPT ![k] = Absent])
\* What the iterator shows at its position.
Shown(it) == Item(it.key.v, it.value.v)
\* The inner entry under the inner iterator's cursor.
NoEntry == [some |-> FALSE]
EntryAt(inner, pos) ==
  IF pos = 0 THEN NoEntry
  ELSE [some |-> TRUE, key |-> InnerEntries(inner)[pos].key,
        value |-> InnerEntries(inner)[pos].value]

\* A store is opened over an inner store that holds what some inserts left
\* there and at most one entry the store did not write, and iter() makes
\* its iterator.  `yielded` is what std next returned and `visited` what
\* the iterator showed since the last rewind, `pass` says which of the two
\* next functions were called since, `entry` is the inner entry that the
\* last operation loaded.
IterOpen ==
  /\ cstore = NoStore
  /\ \E written \in [PlainKeys -> {Absent} \cup {Found(v) : v \in PlainValues}],
        corrupt \in SUBSET CorruptEntries :
       /\ Cardinality(corrupt) <= 1
       /\ cstore' =
            [open |-> TRUE, key |-> StateKey,
             inner |-> LET clean == InsertAll([key |-> StateKey, inner |-> {}],
                                              written)
                       IN IF corrupt = {} THEN clean
                          ELSE Inner_insert(clean,
                                 (CHOOSE c \in corrupt : TRUE).key,
                                 (CHOOSE c \in corrupt : TRUE).value),
             written |-> written, corrupt |-> corrupt,
             it |-> ConfidentialStoreIterator_new,
             op |-> "iter", pass |-> "new", entry |-> NoEntry,
             ret |-> NoItem, yielded |-> <<>>, visited |-> <<>>]
  /\ UNCHANGED <<pc, round, state, batch, txs, index, messages, block_tags,
                 results, ret, events, invoked, sent, check, qret, chain, call>>
IterRewind ==
  /\ cstore.open
  /\ \E it \in {ConfidentialStoreIterator_rewind(cstore, cstore.it)} :
       cstore' = [cstore EXCEPT
                    !.it = it, !.op = "rewind", !.pass = "start",
                    !.entry = EntryAt(cstore.inner, it.pos), !.ret = NoItem,
                    !.yielded = <<>>,
                    !.visited = IF ConfidentialStoreIterator_is_valid(it)
                                THEN <<Shown(it)>> ELSE <<>>]
  /\ UNCHANGED <<pc, round, state, batch, txs, index, messages, block_tags,
                 results, ret, events, invoked, sent, check, qret, chain, call>>
IterSeek ==
  /\ cstore.open
  /\ \E key \in PlainKeys :
       \E it \in {ConfidentialStoreIterator_seek_from(cstore, cstore.it, key)} :
         cstore' = [cstore EXCEPT
                      !.it = it, !.op = "seek", !.pass = "seek",
                      !.entry = EntryAt(cstore.inner, it.pos), !.ret = NoItem,
                      !.yielded = <<>>, !.visited = <<>>]
  /\ UNCHANGED <<pc, round, state, batch, txs, index, messages, block_tags,
                 results, ret, events, invoked, sent, check, qret, chain, call>>
IterNext ==
  /\ cstore.open
  /\ \E it \in {ConfidentialStoreIterator_next(cstore, cstore.it)} :
       cstore' = [cstore EXCEPT
                    !.it = it, !.op = "next",
                    !.pass = IF @ \in {"start", "mkvs"} THEN "mkvs"
                             ELSE IF @ = "std" THEN "mixed" ELSE @,
                    !.entry = EntryAt(cstore.inner, it.pos), !.ret = NoItem,
                    !.visited = IF ConfidentialStoreIterator_is_valid(it)
                                THEN Append(@, Shown(it)) ELSE @]
  /\ UNCHANGED <<pc, round, state, batch, txs, index, messages, block_tags,
                 results, ret, events, invoked, sent, check, qret, chain, call>>
IterStdNext ==
  /\ cstore.open
  /\ \E r \in {ConfidentialStoreIterator_std_next(cstore, cstore.it)} :
       cstore' = [cstore EXCEPT
                    !.it = r.it, !.op = "std_next",
                    !.pass = IF @ \in {"start", "std"} THEN "std"
                             ELSE IF @ = "mkvs" THEN "mixed" ELSE @,
                    !.entry = EntryAt(cstore.inner, cstore.it.pos),
                    !.ret = r.item,
                    !.yielded = IF r.item.some THEN Append(@, r.item) ELSE @]
  /\ UNCHANGED <<pc, round, state, batch, txs, index, messages, block_tags,
                 results, ret, events, invoked, sent, check, qret, chain, call>>
NextIter ==
  \/ IterOpen
  \/ IterRewind
  \/ IterSeek
  \/ IterNext
  \/ IterStdNext

SpecIter == Init /\ [][NextIter]_vars

\* ------------------------------------------------- generate_once, in threads
\* Macro expansions call generate_once on the process-wide record of module
\* paths.  cstore holds the record, the holders of its mutex, the calls of the
\* threads, the order in which the calls took the mutex, and the number of
\* runs of the generator per path.
Threads == 1..MaxThreads
ModPaths == {"mod_a", "mod_b"}
\* record.lock(): the call goes on when nobody holds the mutex.
Mutex_lock_unguarded(mutex) == TRUE
Mutex_lock(mutex) == mutex = {}
GenCalls ==
  /\ cstore = NoStore
  /\ \E paths \in [Threads -> ModPaths] :
       cstore' = [open |-> TRUE, record |-> {}, mutex |-> {},
                  calls |-> [t \in Threads |->
                               [pc |-> "call", current_mod |-> paths[t],
                                out |-> None]],
                  order |-> <<>>,
                  ran |-> [p \in ModPaths |-> 0]]
  /\ UNCHANGED <<pc, round, state, batch, txs, index, messages, block_tags,
                 results, ret, events, invoked, sent, check, qret, chain, call>>
\* let mut record = record.lock().unwrap();
GenLock ==
  /\ cstore.open
  /\ \E t \in Threads :
       /\ cstore.calls[t].pc = "call"
       /\ Mutex_lock(cstore.mutex)
       /\ cstore' = [cstore EXCEPT !.mutex = @ \cup {t},
                                   !.order = Append(@, t),
                                   !.calls[t].pc = "locked"]
  /\ UNCHANGED <<pc, round, state, batch, txs, index, messages, block_tags,
                 results, ret, events, invoked, sent, check, qret, chain, call>>
\* if record.contains(&current_mod) { return None; } drops the guard.
GenContains ==
  /\ cstore.open
  /\ \E t \in Threads :
       /\ cstore.calls[t].pc = "locked"
       /\ cstore' =
            IF cstore.calls[t].current_mod \in cstore.record
            THEN [cstore EXCEPT !.mutex = @ \ {t},
                                !.calls[t].pc = "done",
                                !.calls[t].out = None]
            ELSE [cstore EXCEPT !.calls[t].pc = "insert"]
  /\ UNCHANGED <<pc, round, state, batch, txs, index, messages, block_tags,
                 results, ret, events, invoked, sent, check, qret, chain, call>>
\* record.insert(current_mod);
GenInsert ==
  /\ cstore.open
  /\ \E t \in Threads :
       /\ cstore.calls[t].pc = "insert"
       /\ cstore' = [cstore EXCEPT
                       !.record = @ \cup {cstore.calls[t].current_mod},
                       !.calls[t].pc = "generate"]
  /\ UNCHANGED <<pc, round, state, batch, txs, index, messages, block_tags,
                 results, ret, events, invoked, sent, check, qret, chain, call>>
\* Some(generator()), and the guard is dropped on return.
GenGenerate ==
  /\ cstore.open
  /\ \E t \in Threads :
       /\ cstore.calls[t].pc = "generate"
       /\ cstore' = [cstore EXCEPT
                       !.ran[cstore.calls[t].current_mod] = @ + 1,
                       !.mutex = @ \ {t},
                       !.calls[t].pc = "done",
                       !.calls[t].out =
                         Some(cstore.ran[cstore.calls[t].current_mod] + 1)]
  /\ UNCHANGED <<pc, round, state, batch, txs, index, messages, block_tags,
                 results, ret, events, invoked, sent, check, qret, chain, call>>
NextGen ==
  \/ GenCalls
  \/ GenLock
  \/ GenContains
  \/ GenInsert
  \/ GenGenerate

SpecGen == Init /\ [][NextGen]_vars

\* ------------------------------------------- contract instance stores
\* contracts::store::for_instance.  A raw key of the runtime state under
\* prefix stores is the bytes of the prefixes followed by the key handed to
\* the innermost prefix store.
InstanceIds == {1, 2}
StoreKinds == {"Public", "Confidential"}
Byte(b) == IF b = 0 THEN "00" ELSE "01"
\* InstanceId::to_storage_key: the id as big-endian bytes of a fixed width.
to_storage_key(id) == <<Byte(id \div 2), Byte(id % 2)>>
\* StoreKind::prefix: one byte.
StoreKind_prefix(kind) == IF kind = "Public" THEN <<"00">> ELSE <<"01">>
\* keymanager::get_key_pair_id and get_or_create_keys: the state key of the
\* key pair of an instance.
InstanceStateKey(id) == IF id = 1 THEN "K1" ELSE "K2"
\* PrefixStore: prefix || key on every operation; nesting concatenates.
PrefixStore_key(prefix, key) ==
  IF key.form = "prefixed" THEN [key EXCEPT !.prefix = prefix \o @]
  ELSE [form |-> "prefixed", prefix |-> prefix, rest |-> key]
StartsWith(bytes, prefix) ==
  /\ Len(bytes) >= Len(prefix)
  /\ SubSeq(bytes, 1, Len(prefix)) = prefix
\* What a prefix store shows of its parent, and the parent after the prefix
\* store holds the entries inner.
PrefixStore_entries(parent, prefix) ==
  { [key |-> IF Len(e.key.prefix) = Len(prefix) THEN e.key.rest
             ELSE [e.key EXCEPT !.prefix =
                     SubSeq(@, Len(prefix) + 1, Len(@))],
     value |-> e.value] :
    e \in {x \in parent : StartsWith(x.key.prefix, prefix)} }
PrefixStore_write(parent, prefix, inner) ==
  {x \in parent : ~StartsWith(x.key.prefix, prefix)}
    \cup {[key |-> PrefixStore_key(prefix, e.key), value |-> e.value] :
          e \in inner}
\* HashedStore: the key is replaced by its Blake3 hash.
HashedStore_key(key) == [form |-> "hashed", of |-> key]
\* for_instance: [ok, err, prefix, kind, key].
InstanceStore(ok, err, prefix, kind, key) ==
  [ok |-> ok, err |-> err, prefix |-> prefix, kind |-> kind, key |-> key]
\* the prefix without the instance id.
instance_prefix_of_module(id, kind) ==
  <<"contracts">> \o <<"INSTANCE_STATE">> \o StoreKind_prefix(kind)
instance_prefix(id, kind) ==
  <<"contracts">> \o <<"INSTANCE_STATE">> \o to_storage_key(id)
    \o StoreKind_prefix(kind)
for_instance(key_manager, id, kind) ==
  IF kind = "Confidential" /\ key_manager = "none"
  THEN InstanceStore(FALSE, "Unsupported", <<>>, kind, "")
  ELSE IF kind = "Confidential" /\ key_manager = "failing"
  THEN InstanceStore(FALSE, "ExecutionFailed", <<>>, kind, "")
  ELSE InstanceStore(TRUE, "", instance_prefix(id, kind), kind,
                     IF kind = "Confidential" THEN InstanceStateKey(id)
                     ELSE "")
\* Store::insert and Store::get through the store for_instance returned:
\* [state, ret].
InstanceStore_insert(runtime_state, store, key, value) ==
  LET inner == PrefixStore_entries(runtime_state, store.prefix)
  IN IF store.kind = "Public"
     THEN PrefixStore_write(runtime_state, store.prefix,
            Inner_insert(inner, HashedStore_key(key), value))
     ELSE PrefixStore_write(runtime_state, store.prefix,
            ConfidentialStore_insert([key |-> store.key, inner |-> inner],
                                     key, value).inner)
InstanceStore_get(runtime_state, store, key) ==
  LET inner == PrefixStore_entries(runtime_state, store.prefix)
  IN IF store.kind = "Public"
     THEN [ret |-> Inner_get(inner, HashedStore_key(key)), panic |-> FALSE]
     ELSE LET got == ConfidentialStore_get(
                       [key |-> store.key, inner |-> inner], key)
          IN [ret |-> got.ret, panic |-> got.panic]

\* A context with or without a key manager; contracts write and read
\* through the stores of their instances.  cstore holds the runtime state,
\* the last value written through every store (last), and the last
\* operation with the state before it.
InstanceKeys == { Plain("a", 1) }
InstanceValues == { Plain("a", 1), Plain("v", 1) }
InstOpen ==
  /\ cstore = NoStore
  /\ \E key_manager \in {"none", "ok", "failing"} :
       cstore' = [open |-> TRUE, key_manager |-> key_manager,
                  runtime_state |-> {},
                  last |-> [s \in InstanceIds \X StoreKinds \X InstanceKeys
                              |-> Absent],
                  op |-> "open", id |-> 1, kind |-> "Public",
                  err |-> "", ret |-> Absent, panic |-> FALSE,
                  before |-> {}]
  /\ UNCHANGED <<pc, round, state, batch, txs, index, messages, block_tags,
                 results, ret, events, invoked, sent, check, qret, chain, call>>
InstInsert ==
  /\ cstore.open
  /\ \E id \in InstanceIds, kind \in StoreKinds, key \in InstanceKeys,
        value \in InstanceValues :
       \E store \in {for_instance(cstore.key_manager, id, kind)} :
         cstore' =
           IF ~store.ok
           THEN [cstore EXCEPT !.op = "insert", !.id = id, !.kind = kind,
                               !.err = store.err, !.ret = Absent,
                               !.panic = FALSE,
                               !.before = cstore.runtime_state]
           ELSE [cstore EXCEPT
                   !.op = "insert", !.id = id, !.kind = kind, !.err = "",
                   !.ret = Absent, !.panic = FALSE,
                   !.before = cstore.runtime_state,
                   !.runtime_state =
                      InstanceStore_insert(@, store, key, value),
                   !.last[<<id, kind, key>>] = Found(value)]
  /\ UNCHANGED <<pc, round, state, batch, txs, index, messages, block_tags,
                 results, ret, events, invoked, sent, check, qret, chain, call>>
InstGet ==
  /\ cstore.open
  /\ \E id \in InstanceIds, kind \in StoreKinds, key \in InstanceKeys :
       \E store \in {for_instance(cstore.key_manager, id, kind)} :
         cstore' =
           IF ~store.ok
           THEN [cstore EXCEPT !.op = "get", !.id = id, !.kind = kind,
                               !.err = store.err, !.ret = Absent,
                               !.panic = FALSE,
                               !.before = cstore.runtime_state]
           ELSE LET got == InstanceStore_get(cstore.runtime_state, store, key)
                IN [cstore EXCEPT
                      !.op = "get", !.id = id, !.kind = kind, !.err = "",
                      !.ret = got.ret, !.panic = got.panic,
                      !.before = cstore.runtime_state]
  /\ UNCHANGED <<pc, round, state, batch, txs, index, messages, block_tags,
                 results, ret, events, invoked, sent, check, qret, chain, call>>
NextInstance ==
  \/ InstOpen
  \/ InstInsert
  \/ InstGet

SpecInstance == Init /\ [][NextInstance]_vars

\* The host asks queries between the rounds.
QueryTxs == { InsertTx, WithdrawTx }
NextQuery ==
  \/ Query
  \/ QueryReturn
  \/ ExecuteBatchStart(QueryTxs)
  \/ DecodeBatch
  \/ HandleLastRoundMessages(RoundResults(Len(sent)))
  \/ BeginBlock
  \/ ExecuteTx
  \/ EndBlock
  \/ CommitBatch
  \/ NextRound

SpecQuery == Init /\ [][NextQuery]_vars

\* ------------------------------------------------------------------ claims
\* The transaction the next turn of the execution loop dispatches, the
\* scope with_tx opens for it, and the outcome of its call inside the scope.
NextTx == txs[index + 1]
NextScope == with_tx(state, messages, NextTx, FALSE, round)
NextCall == dispatch_tx_call(NextScope, NextTx)
\* A turn of the execution loop that pushed a per-transaction result.
TxExecuted == pc = "txs" /\ index' = index + 1
LastResult == results'[index']

\* C1: a transaction whose call result is not Ok leaves the batch state as
\* it was before dispatch_tx, adds no tags and no messages to the batch
\* context, and its DispatchResult carries no tags.
C1_FailedTxLeavesNoTrace ==
  [][(TxExecuted /\ LastResult.output.kind # "Ok")
       => /\ state' = state
          /\ messages' = messages
          /\ block_tags' = block_tags
          /\ LastResult.tags = <<>>]_vars

\* A withdrawal of an amount that is no whole number of consensus units has
\* failed after its handler moved the funds inside the scope, in a batch
\* whose state an earlier transaction had changed.
C1_Witness ==
  /\ pc = "txs"
  /\ \E i \in 2..Len(results) :
        /\ results[i] = [output |-> Failed("consensus", "AmountNotRepresentable"),
                         tags |-> <<>>]
        /\ results[i - 1].output.kind = "Ok"
  /\ state.kv["k1"] = "v1"

\* C2: what a transaction with an Ok call result produced inside its scope
\* becomes part of the batch context: the scope's state is the batch state
\* the later transactions run on, the scope's tags are the tags of the
\* result, and the scope's messages follow, in emission order, the messages
\* of the earlier transactions.
C2_OkTxIsCommitted ==
  [][(TxExecuted /\ LastResult.output.kind = "Ok" /\ NextTx.format = "Plain")
       => /\ state' = NextCall.ctx.state
          /\ LastResult.tags = NextCall.ctx.etags
          /\ messages' = messages \o NextCall.ctx.messages
          /\ pc' = "txs"]_vars

\* Two withdrawals succeeded one after the other in a batch: the second one
\* ran on the balance the first left and its message follows the first's.
C2_Witness ==
  /\ pc = "txs"
  /\ Len(results) = 2
  /\ \A i \in 1..2 : results[i].output.kind = "Ok"
  /\ Len(messages) = 2
  /\ \A i \in 1..2 : messages[i].msg.kind = "staking.Transfer"
  /\ state.bal[Alice] = 0
  /\ state.bal[ADDRESS_PENDING_WITHDRAWAL] = 4

\* C3: when the call of a transaction is Aborted(e), dispatch_tx returns
\* Err(e) and forwards none of its messages, execute_batch returns Err with
\* no results and no messages, the handler map is not written, and nothing
\* of the batch runs afterwards (no later transaction, no end_block).
C3_AbortEndsBatch ==
  [][/\ pc # "failed"
     /\ (pc = "txs" /\ index < Len(txs) /\ Tuple_authenticate_tx(1, NextTx).ok
          /\ NextTx.format = "Plain" /\ NextCall.result.kind = "Aborted")
          => /\ pc' = "failed"
             /\ ret' = ReturnErr(NextCall.result.err)
             /\ messages' = messages
             /\ results' = results
             /\ state'.handlers = state.handlers]_vars

\* A batch of the second round was failed by the aborted call of its first
\* transaction, with a transaction still to run and the handlers of the
\* first round still the persisted ones.
C3_Witness ==
  /\ pc = "failed"
  /\ ret = ReturnErr("KeyManagerFailure")
  /\ index + 1 < Len(txs)
  /\ Len(results) = index
  /\ round = 1
  /\ DOMAIN state.handlers # {}

C5_UnhandledMethodFailsTxOnly ==
  [][/\ (pc = "txs" /\ index < Len(txs) /\ Tuple_authenticate_tx(1, NextTx).ok
          /\ NextTx.format = "Plain"
          /\ Tuple_before_handle_call(1, NextScope).ok
          /\ ~Tuple_dispatch_call(1, NextScope, NextTx.method, NextTx.body).handled)
          => /\ results' = Append(results,
                    [output |-> Failed("core", "InvalidMethod"), tags |-> <<>>])
             /\ index' = index + 1
             /\ pc' = "txs"
             /\ state' = state
             /\ messages' = messages
     /\ pc' = "done"
          => /\ ret'.kind = "Ok"
             /\ Len(ret'.results) = Len(txs)
             /\ ret'.results = results]_vars

\* A batch returned Ok with the InvalidMethod result of its first
\* transaction and the Ok result of the insert that followed it.
C5_Witness ==
  /\ pc = "done"
  /\ ret.kind = "Ok"
  /\ Len(ret.results) = 2
  /\ ret.results[1].output = Failed("core", "InvalidMethod")
  /\ ret.results[2].output = CallOk
  /\ state.kv["k1"] = "v1"

\* The hook invocation emitted with the message of index i of the previous
\* round, and the invocation a handler call must be for the event e.
HookOf(i) == sent[i + 1].hook
InvocationFor(e) ==
  [hook_name |-> HookOf(e.index).hook_name, event |-> e,
   context |-> HookOf(e.index).payload, round |-> round - 1]

\* C6: after a successful execute_batch that returns n messages the
\* persisted map has exactly the keys 0..n-1, entry i is the hook invocation
\* emitted with the i-th returned message, and no entry of an earlier round
\* is left.
C6_PersistedHandlersMatchMessages ==
  pc = "done"
    => /\ ret.kind = "Ok"
       /\ Len(ret.messages) = Len(messages)
       /\ DOMAIN state.handlers = 0..(Len(ret.messages) - 1)
       /\ \A i \in 0..(Len(ret.messages) - 1) :
            /\ ret.messages[i + 1] = messages[i + 1].msg
            /\ state.handlers[i] = messages[i + 1].hook
            /\ state.handlers[i].round = round

\* The second round returned one message (a transfer) after a first round
\* that had returned two.
C6_Witness ==
  /\ pc = "done"
  /\ round = 1
  /\ Len(sent) = 2
  /\ Len(ret.messages) = 1
  /\ ret.messages[1].kind = "staking.Transfer"
  /\ sent[1].msg.kind = "staking.Withdraw"

Missing(k) ==
  \/ events[k].index \notin 0..(Len(sent) - 1)
  \/ \E j \in 1..(k - 1) : events[j].index = events[k].index
EventIndexes == {events[k].index : k \in 1..Len(events)}

\* C8: handle_last_round_messages lets the batch go on only when the events
\* and the persisted map match one to one; the first event without an entry
\* (a second event for a consumed index included) fails the batch with
\* MessageHandlerMissing(index), entries left after all events fail it with
\* MessageHandlerNotInvoked.
C8_EventsMatchHandlers ==
  /\ pc = "begin"
       => /\ \A k \in 1..Len(events) : ~Missing(k)
          /\ EventIndexes = 0..(Len(sent) - 1)
  /\ (pc = "failed" /\ ret.error = "MessageHandlerMissing")
       => \E k \in 1..Len(events) :
            /\ Missing(k)
            /\ \A j \in 1..(k - 1) : ~Missing(j)
            /\ ret.at = events[k].index
            /\ Len(invoked) = k - 1
  /\ (pc = "failed" /\ ret.error = "MessageHandlerNotInvoked")
       => /\ \A k \in 1..Len(events) : ~Missing(k)
          /\ EventIndexes # 0..(Len(sent) - 1)
          /\ Len(invoked) = Len(events)
  /\ (pc = "failed" /\ (\E k \in 1..Len(events) : Missing(k)))
       => ret.error = "MessageHandlerMissing"

\* The host reported the result of message 0 twice: the second event found
\* its entry consumed and the batch failed with MessageHandlerMissing(0).
C8_Witness ==
  /\ pc = "failed"
  /\ ret = ReturnErrAt("MessageHandlerMissing", 0)
  /\ Len(events) = 2
  /\ events[1].index = 0 /\ events[2].index = 0
  /\ Len(invoked) = 1
  /\ Len(sent) = 2

\* C9 as claimed: the handlers are invoked in increasing order of message
\* index, each with the event whose index is the handler's own.
C9_IncreasingIndexOrder ==
  \A i \in 1..Len(invoked) :
    /\ invoked[i].event.index \in 0..(Len(sent) - 1)
    /\ invoked[i].hook_name = HookOf(invoked[i].event.index).hook_name
    /\ \A j \in 1..Len(invoked) :
          i < j => invoked[i].event.index < invoked[j].event.index

\* C9 as amended: the handlers are invoked in the order in which the
\* round results list the message events, the i-th invocation being for the
\* i-th event, each handler with the event whose index is the index of the
\* message the handler was emitted with.
C9_InvokedInEventOrder ==
  /\ Len(invoked) <= Len(events)
  /\ \A i \in 1..Len(invoked) :
        /\ invoked[i].event = events[i]
        /\ events[i].index \in 0..(Len(sent) - 1)
        /\ invoked[i].hook_name = HookOf(events[i].index).hook_name
        /\ invoked[i].context = HookOf(events[i].index).payload

\* The host listed the event of message 1 before the event of message 0
\* and the handlers of both ran, the transfer handler first.
C9_Witness ==
  /\ pc = "begin"
  /\ Len(invoked) = 2
  /\ invoked[1].event.index = 1 /\ invoked[2].event.index = 0
  /\ invoked[1].hook_name = CONSENSUS_TRANSFER_HANDLER
  /\ invoked[2].hook_name = CONSENSUS_WITHDRAW_HANDLER

\* The persisted map holds what the previous round emitted.
HandlersOfLastRound ==
  /\ DOMAIN state.handlers = 0..(Len(sent) - 1)
  /\ \A i \in 0..(Len(sent) - 1) : state.handlers[i] = HookOf(i)

\* C10 as claimed: once handle_last_round_messages has read the map, no
\* later step of the batch finds an entry of the previous round in state.
C10_ReadAndCleared ==
  pc \in {"begin", "txs", "commit"}
    => \A i \in DOMAIN state.handlers : state.handlers[i].round = round

\* C10 as amended: the map is written by one step of execute_batch only,
\* the save at the end of a successful batch, which replaces it whole;
\* handle_last_round_messages reads it and leaves it in state, where the
\* previous round's entries stay through begin_block, the transactions and
\* end_block until that save.
C10_WrittenOnceReplacedAtCommit ==
  [][/\ state'.handlers # state.handlers => (pc = "commit" /\ pc' = "done")
     /\ pc \in {"decode", "messages", "begin", "txs", "commit", "failed"}
          => HandlersOfLastRound
     /\ pc' = "done"
          => \A i \in DOMAIN state'.handlers : state'.handlers[i].round = round]_vars

\* A transaction of the second round has run with the first round's
\* handler entry still in state, after its message result was handled.
C10_Witness ==
  /\ pc = "txs"
  /\ round = 1
  /\ index > 0
  /\ 0 \in DOMAIN state.handlers
  /\ state.handlers[0].round = 0

\* The order of the steps of execute_batch, as the moves of pc.
StepOrder ==
  { <<"idle", "decode">>, <<"decode", "messages">>, <<"decode", "failed">>,
    <<"messages", "begin">>, <<"messages", "failed">>,
    <<"messages", "panicked">>, <<"begin", "txs">>, <<"txs", "failed">>,
    <<"txs", "commit">>, <<"commit", "done">>, <<"done", "idle">> }

C12_SameOutcome ==
  check.pc = "returned" =>
    \A i \in 1..Len(results) :
      (results[i].output.kind = "Ok") = check.results[i].meta.some

\* C12 (amended): with no message results of the previous round to handle,
\* a first transaction that check_batch reports as failed is a failed
\* transaction of execute_batch as well.
C12_FirstFailedInCheckFailsInExecution ==
  ( /\ check.pc = "returned" /\ Len(sent) = 0 /\ Len(results) >= 1
    /\ ~check.results[1].meta.some )
  => results[1].output.kind = "Failed"

\* An insert whose fee does not cover a new key failed the check and then
\* the execution, with the same error.
C12_Witness ==
  /\ check.pc = "returned" /\ Len(sent) = 0 /\ Len(results) >= 1
  /\ check.batch = batch
  /\ check.results[1].error.err = "OutOfGas"
  /\ results[1].output = Failed("core", "OutOfGas")

\* C13: check_batch leaves alone everything execute_batch's message
\* handling, block hooks and commit write: no message result handler is
\* invoked, no block tag is emitted, the state handed to it and the
\* persisted handlers in it stay what they were, also in its own context,
\* and it goes from the migration through decoding and checking only.
C13_CheckBatchFrame ==
  [][ check' # check /\ check'.pc # "none" =>
        /\ UNCHANGED <<pc, state, block_tags, events, invoked, messages, sent,
                       results, ret>>
        /\ pc = "idle"
        /\ <<check.pc, check'.pc>> \in
             { <<"none", "decode">>, <<"decode", "txs">>, <<"txs", "txs">>,
               <<"txs", "returned">>, <<"txs", "failed">> }
        /\ check'.state.handlers = state.handlers
        /\ check'.ret.block_tags = <<>> /\ check'.ret.messages = <<>>
    ]_vars

\* check_batch returned the results of two transactions in a round that has
\* the results of the previous round's messages to handle.
C13_Witness ==
  /\ check.pc = "returned" /\ Len(check.results) = 2
  /\ round = 1 /\ Len(sent) > 0 /\ DOMAIN state.handlers # {}
  /\ check.results[1].meta.some

\* Every module of the runtime has a recorded version.
Migrated(st) == \A m \in ModuleNames : st.versions[m] # 0

\* C14 (as claimed): a query, the migration it runs included, leaves the
\* runtime state as it found it.
C14_QueryLeavesStateUnchanged == qret.after = qret.before

\* C14 (amended): a query hands no message, tag or result of a batch to the
\* host and leaves the state unchanged when every module has a recorded
\* version; otherwise it writes what the migration step writes (the genesis
\* parameters and the versions) and nothing else.
C14_QueryWritesOnlyItsMigration ==
  [][ pc' = "queried" =>
        /\ UNCHANGED <<state, messages, sent, ret, block_tags, results>>
        /\ qret'.before = state
        /\ Migrated(state) => qret'.after = state
        /\ qret'.after.kv = state.kv /\ qret'.after.bal = state.bal
        /\ qret'.after.supply = state.supply
        /\ qret'.after.handlers = state.handlers
        /\ (qret'.args.wire = "cbor" /\ ~qret'.raised) =>
             qret'.after = migrate(state)
        /\ qret'.args.wire = "garbage" => qret'.after = state
    ]_vars

\* A keyvalue.Get query read an entry of a migrated state that holds
\* pending message handlers, and left the state as it was.
C14_Witness ==
  /\ qret.method = "keyvalue.Get" /\ qret.result = QueryOk("v1")
  /\ Migrated(qret.before) /\ qret.after = qret.before
  /\ DOMAIN qret.before.handlers # {}

\* C15: a panic raised while a query is dispatched, in the migration step
\* or in the query handler, does not leave dispatch_query: the query
\* returns the QueryAborted error.
C15_QueryPanicIsCaught ==
  qret.raised =>
    /\ ~qret.escaped
    /\ qret.result = QueryErr("dispatcher", "QueryAborted")

\* A query handler panicked on a migrated state and the query returned
\* QueryAborted.
C15_Witness ==
  /\ qret.raised /\ qret.panic.in = "handler" /\ qret.method = "keyvalue.Get"
  /\ Migrated(qret.before)
  /\ qret.result.err = "QueryAborted" /\ ~qret.escaped

\* The modules invoked so far are the first ones of the tuple, each once,
\* in declaration order.
InDeclarationOrder ==
  chain.invoked = [i \in 1..Len(chain.invoked) |-> i]
\* The answers of the modules invoked before the last one.
Earlier == {chain.answers[i] : i \in 1..(Len(chain.invoked) - 1)}

\* C16: prefetch, dispatch_call, dispatch_query and dispatch_message_result
\* of a tuple invoke the modules in declaration order; the first module
\* that answers Handled gives the tuple's result and no later module is
\* invoked; every module invoked is given the body as it was handed to the
\* tuple; when no module handles the method the tuple returns Unhandled
\* with that body.
C16_FirstHandledWins ==
  chain.hook \in MethodHooks =>
    /\ InDeclarationOrder
    /\ Earlier \subseteq {"Unhandled"}
    /\ \A i \in DOMAIN chain.given : chain.given[i] = chain.original
    /\ chain.out.kind \in {"none", "Handled", "Unhandled"}
    /\ chain.out.kind = "Handled" =>
         /\ chain.out.by = Len(chain.invoked)
         /\ chain.answers[chain.out.by] = "Handled"
    /\ chain.out.kind = "Unhandled" =>
         /\ Len(chain.invoked) = Len(chain.answers)
         /\ \A i \in DOMAIN chain.answers : chain.answers[i] = "Unhandled"
         /\ chain.out.value = chain.original
    /\ chain.out.kind = "none" =>
         \A i \in DOMAIN chain.invoked : chain.answers[i] = "Unhandled"

\* The second of three modules handled the method that the third handles
\* too: its result was returned and the third was not invoked.
C16_Witness ==
  /\ chain.hook = "dispatch_call"
  /\ chain.answers = <<"Unhandled", "Handled", "Handled">>
  /\ chain.out.kind = "Handled" /\ chain.out.by = 2
  /\ chain.invoked = <<1, 2>>

\* approve_unverified_tx, authenticate_tx and before_handle_call of a tuple:
\* modules run in declaration order while they succeed; the tuple succeeds
\* only after every module has, and returns the first error with no later
\* module invoked.
AllMustSucceed ==
  chain.hook \in AuthHooks =>
    /\ InDeclarationOrder
    /\ Earlier \subseteq {"Ok"}
    /\ chain.out.kind \in {"none", "Ok", "Err"}
    /\ chain.out.kind = "Ok" =>
         /\ Len(chain.invoked) = Len(chain.answers)
         /\ \A i \in DOMAIN chain.answers : chain.answers[i] = "Ok"
    /\ chain.out.kind = "Err" =>
         /\ chain.out.by = Len(chain.invoked)
         /\ chain.answers[chain.out.by] = "Err"
    /\ chain.out.kind = "none" =>
         \A i \in DOMAIN chain.invoked : chain.answers[i] = "Ok"
\* decode_tx of a tuple returns the transaction of the first module that
\* answers Some.
FirstSomeWins ==
  chain.hook = "decode_tx" /\ chain.out.kind = "Some" =>
    /\ chain.out.by = Len(chain.invoked)
    /\ chain.answers[chain.out.by] = "Some"
    /\ Earlier \subseteq {"None"}

\* C17 (as claimed): the auth hooks of a tuple succeed only if every
\* module's hook does, in declaration order, the first error ending the
\* chain; decode_tx returns the transaction of the first module that returns
\* Some, and Ok(None) when no module returns Some.
C17_NoneWhenNoModuleDecodes ==
  /\ AllMustSucceed
  /\ FirstSomeWins
  /\ ( /\ chain.hook = "decode_tx" /\ chain.out.kind # "none"
       /\ \A i \in DOMAIN chain.invoked : chain.answers[i] # "Some" )
     => chain.out.kind = "None"

\* C17 (amended): as claimed for the auth hooks and for the first Some of
\* decode_tx; decode_tx returns Ok(None) only when every module of the tuple
\* answered Ok(None), and the error of a module that fails before any
\* module answered Some is returned with no later module invoked.
C17_AllMustSucceedFirstSomeOrErrorWins ==
  /\ AllMustSucceed
  /\ FirstSomeWins
  /\ chain.hook = "decode_tx" =>
       /\ InDeclarationOrder
       /\ Earlier \subseteq {"None"}
       /\ chain.out.kind \in {"none", "Some", "None", "Err"}
       /\ chain.out.kind = "None" =>
            /\ Len(chain.invoked) = Len(chain.answers)
            /\ \A i \in DOMAIN chain.answers : chain.answers[i] = "None"
       /\ chain.out.kind = "Err" =>
            /\ chain.out.by = Len(chain.invoked)
            /\ chain.answers[chain.out.by] = "Err"
       /\ chain.out.kind = "none" =>
            \A i \in DOMAIN chain.invoked : chain.answers[i] = "None"

\* The second of three modules failed to decode the transaction that the
\* third would have decoded: its error was returned and the third module was
\* not invoked.
C17_Witness ==
  /\ chain.hook = "decode_tx"
  /\ chain.answers = <<"None", "Err", "Some">>
  /\ chain.out.kind = "Err" /\ chain.out.by = 2
  /\ chain.invoked = <<1, 2>>

\* st2 is st after a migration as the claim describes it: a module recorded
\* at version 0 has its genesis parameters stored and VERSION recorded, a
\* module recorded at any other version keeps its parameters and its
\* version, and nothing else is written.
MigrationOf(st, st2) ==
  /\ \A m \in ModuleNames :
       IF st.versions[m] = 0
       THEN /\ st2.params[m] = StoredParameters(Genesis(m))
            /\ st2.versions[m] = VERSION
       ELSE /\ st2.params[m] = st.params[m]
            /\ st2.versions[m] = st.versions[m]
  /\ st2.kv = st.kv /\ st2.bal = st.bal /\ st2.supply = st.supply
  /\ st2.handlers = st.handlers
\* What a module's init_or_migrate returns on the state st.
ReportsChange(m, st) ==
  init_or_migrate(m, [st |-> st, meta |-> st.versions, changed |-> FALSE],
                  Genesis(m)).changed

\* C18: init_or_migrate initialises a module from genesis only at recorded
\* version 0 (genesis parameters stored, VERSION recorded, true returned);
\* at any other recorded version it changes nothing and returns false; so
\* the migration that execute_batch, check_batch and query run leaves a
\* migrated state as it is.
C18_InitOnlyAtVersionZero ==
  [][ /\ (pc = "idle" /\ pc' = "decode") =>
           /\ MigrationOf(state, state')
           /\ migrate(state') = state'
      /\ (check.pc = "none" /\ check'.pc = "decode") =>
           /\ MigrationOf(state, check'.state)
           /\ migrate(check'.state) = check'.state
      /\ (pc' = "queried" /\ qret'.args.wire = "cbor" /\ ~qret'.raised) =>
           MigrationOf(state, qret'.after)
      /\ \A m \in ModuleNames :
           /\ ReportsChange(m, state) = (state.versions[m] = 0)
           /\ ~ReportsChange(m, migrate(state))
    ]_vars

\* execute_batch has migrated a state in which keyvalue was recorded at
\* version 0 and consensus_accounts at version 2 with parameters of its own:
\* keyvalue is initialised, consensus_accounts is left alone.
C18_Witness ==
  /\ pc = "decode"
  /\ state.versions[KEYVALUE] = VERSION
  /\ state.params[KEYVALUE] = StoredParameters(KeyvalueGenesis)
  /\ state.versions[CONSENSUS_ACCOUNTS] = 2
  /\ state.params[CONSENSUS_ACCOUNTS] = StoredParameters(OldParameters)

RECURSIVE Deposited(_, _)
Deposited(a, n) ==
  IF n = 0 THEN 0
  ELSE Deposited(a, n - 1)
       + ( IF events'[n].ok /\ sent[n].hook.payload.to = a
           THEN sent[n].hook.payload.amount ELSE 0 )
RECURSIVE DepositedInAll(_)
DepositedInAll(n) ==
  IF n = 0 THEN 0
  ELSE DepositedInAll(n - 1)
       + (IF events'[n].ok THEN sent[n].hook.payload.amount ELSE 0)

\* C20: when the results of the deposits' Withdraw messages are handled in
\* the next block, every successful one mints exactly its amount to the
\* `to` address of its context, a failed one changes no balance and no
\* supply, and each of them emits one Deposit event, with the error exactly
\* when it failed, whose from, nonce, to and amount are those recorded with
\* the message when the deposit was made.
C20_DepositResultMintsOrReports ==
  [][ (pc = "messages" /\ pc' = "begin") =>
        /\ \A a \in Addresses :
             state'.bal[a] = state.bal[a] + Deposited(a, Len(sent))
        /\ state'.supply = state.supply + DepositedInAll(Len(sent))
        /\ Len(block_tags') = Len(block_tags) + Len(sent)
        /\ \A i \in 1..Len(sent) :
             LET ev == block_tags'[Len(block_tags) + i]
                 context == sent[i].hook.payload
             IN /\ sent[i].hook.hook_name = CONSENSUS_WITHDRAW_HANDLER
                /\ ev.name = "consensus_accounts.Deposit"
                /\ ev.failed = ~events'[i].ok
                /\ ev.from = context.from /\ ev.nonce = context.nonce
                /\ ev.to = context.to /\ ev.amount = context.amount
    ]_vars

\* Two deposits were made in the first round; the one into the other
\* account succeeded and was minted there, the other one failed.
C20_Witness ==
  /\ pc = "begin" /\ round = 1 /\ Len(sent) = 2
  /\ events[1].ok /\ ~events[2].ok
  /\ sent[1].hook.payload.to = Bob
  /\ state.bal[Bob] = 2 /\ state.bal[Alice] = 4 /\ state.supply = 6
  /\ Len(block_tags) = 2
  /\ ~block_tags[1].failed /\ block_tags[2].failed
  /\ block_tags[1].nonce = 2

\* The amount an executed consensus.Withdraw asks for and its signer's
\* balance before it runs.
Sufficient == state.bal[NextTx.signer] >= NextTx.body.amount
\* The withdrawal moved exactly its amount into the pending withdrawal
\* account and emitted its one Transfer message.
WithdrawnIntoEscrow ==
  /\ state'.bal[NextTx.signer] = state.bal[NextTx.signer] - NextTx.body.amount
  /\ state'.bal[ADDRESS_PENDING_WITHDRAWAL] =
       state.bal[ADDRESS_PENDING_WITHDRAWAL] + NextTx.body.amount
  /\ \A a \in Addresses \ {NextTx.signer, ADDRESS_PENDING_WITHDRAWAL} :
       state'.bal[a] = state.bal[a]
  /\ state'.supply = state.supply
  /\ Len(messages') = Len(messages) + 1
  /\ SubSeq(messages', 1, Len(messages)) = messages
  /\ messages'[Len(messages')].msg.kind = "staking.Transfer"
  /\ messages'[Len(messages')].hook.hook_name = "consensus.TransferFromRuntime"
  /\ messages'[Len(messages')].hook.hook_name = CONSENSUS_TRANSFER_HANDLER

RECURSIVE Refunded(_, _)
Refunded(a, n) ==
  IF n = 0 THEN 0
  ELSE Refunded(a, n - 1)
       + ( IF ~events'[n].ok /\ sent[n].hook.payload.from = a
           THEN sent[n].hook.payload.amount ELSE 0 )
RECURSIVE Burned(_)
Burned(n) ==
  IF n = 0 THEN 0
  ELSE Burned(n - 1) + (IF events'[n].ok THEN sent[n].hook.payload.amount ELSE 0)
RECURSIVE Resolved(_)
Resolved(n) ==
  IF n = 0 THEN 0 ELSE Resolved(n - 1) + sent[n].hook.payload.amount

\* C22: when the results of the withdrawals' Transfer messages are handled
\* in the next block, a failed one moves exactly its amount from
\* ADDRESS_PENDING_WITHDRAWAL back to the withdrawing account and a
\* successful one burns exactly its amount from ADDRESS_PENDING_WITHDRAWAL
\* and changes no other balance; each emits exactly one Withdraw event, with
\* an error exactly when the message failed.  When all the withdrawals of
\* the first round fail, every balance and the supply are back to what they
\* were before the withdraw transactions.
C22_TransferResultRefundsOrBurns ==
  [][ (pc = "messages" /\ pc' = "begin") =>
        /\ \A a \in Addresses \ {ADDRESS_PENDING_WITHDRAWAL} :
             state'.bal[a] = state.bal[a] + Refunded(a, Len(sent))
        /\ state'.bal[ADDRESS_PENDING_WITHDRAWAL] =
             state.bal[ADDRESS_PENDING_WITHDRAWAL] - Resolved(Len(sent))
        /\ state'.supply = state.supply - Burned(Len(sent))
        /\ Len(block_tags') = Len(block_tags) + Len(sent)
        /\ \A i \in 1..Len(sent) :
             LET ev == block_tags'[Len(block_tags) + i]
                 context == sent[i].hook.payload
             IN /\ sent[i].hook.hook_name = CONSENSUS_TRANSFER_HANDLER
                /\ ev.name = "consensus_accounts.Withdraw"
                /\ ev.failed = ~events'[i].ok
                /\ ev.from = context.from /\ ev.nonce = context.nonce
                /\ ev.to = context.to /\ ev.amount = context.amount
        /\ (round = 1 /\ \A i \in 1..Len(sent) : ~events'[i].ok) =>
             /\ state'.bal = GenesisState.bal
             /\ state'.supply = GenesisState.supply
    ]_vars

\* Two withdrawals of 2 were made in the first round, the second one to
\* another consensus account; the first succeeded and was burned, the
\* second failed and went back to the signer, not to that account.
C22_Witness ==
  /\ pc = "begin" /\ round = 1 /\ Len(sent) = 2
  /\ events[1].ok /\ ~events[2].ok
  /\ sent[2].hook.payload.to = Bob /\ sent[2].hook.payload.from = Alice
  /\ state.bal[Alice] = 2 /\ state.bal[Bob] = 0
  /\ state.bal[ADDRESS_PENDING_WITHDRAWAL] = 0 /\ state.supply = 2
  /\ Len(block_tags) = 2
  /\ ~block_tags[1].failed /\ block_tags[2].failed

\* The transaction the next turn of the check loop checks, what dispatch_tx
\* makes of it in check mode, and the gas its call costs.
CheckedTx == check.txs[check.index + 1].tx
CheckedDispatch ==
  dispatch_tx([state |-> check.state, messages |-> check.messages,
               check_only |-> TRUE, round |-> round], CheckedTx, usize_MAX)
CheckedGasCost ==
  IF CheckedTx.method = "consensus.Deposit"
  THEN params(check.state, CONSENSUS_ACCOUNTS).tx_deposit
  ELSE params(check.state, CONSENSUS_ACCOUNTS).tx_withdraw
\* A turn of the check loop on a consensus.Deposit or consensus.Withdraw.
AccountsTxChecked ==
  /\ check.pc = "txs" /\ check'.pc = "txs"
  /\ check'.index = check.index + 1
  /\ check.txs[check.index + 1].ok
  /\ CheckedTx.method \in {"consensus.Deposit", "consensus.Withdraw"}

InvariantsChecked == call.fn = "check_invariants"
\* The balance of the runtime's general account in runtime units.
BalanceInRuntimeUnits == call.in.balance * ScalingFactor

\* C24 (as claimed): check_invariants returns Ok exactly when there is no
\* total supply of the consensus denomination or the total supply is at most
\* the runtime's general consensus balance in runtime units, and
\* InvariantViolation otherwise.  (Read for the contexts in which the
\* denomination, the supplies and the account can be read.)
C24_OkIffSupplyWithinBalance ==
  ( /\ InvariantsChecked
    /\ call.in.den_ok /\ call.in.ts_ok /\ call.in.account_ok )
  => /\ (call.out.kind = "Ok") =
          ( \/ ~call.in.total_supply.some
            \/ call.in.total_supply.v <= BalanceInRuntimeUnits )
     /\ call.out.kind \in {"Ok", "InvariantViolation"}

\* C24 (amended): check_invariants returns Ok exactly when the total
\* supplies can be read, the general balance (0 when the account cannot be
\* read, u128::MAX when it does not fit u128) converts to runtime units,
\* and there is no total supply of the denomination or it is at most the
\* converted balance; in every other case it returns InvariantViolation,
\* also for a supply that exceeds the balance by 1.  It panics when the
\* denomination cannot be read.
C24_OkIffReadableRepresentableAndWithin ==
  InvariantsChecked =>
    LET general == IF call.in.account_ok THEN call.in.balance ELSE 0
        fits == general <= u128_MAX /\ general * ScalingFactor <= u128_MAX
    IN /\ (call.out.kind = "panic") = ~call.in.den_ok
       /\ call.in.den_ok =>
            /\ call.out.kind \in {"Ok", "InvariantViolation"}
            /\ (call.out.kind = "Ok") =
                 ( /\ call.in.ts_ok /\ fits
                   /\ \/ ~call.in.total_supply.some
                      \/ call.in.total_supply.v <= general * ScalingFactor )
            /\ ( /\ call.in.ts_ok /\ fits /\ call.in.total_supply.some
                 /\ call.in.total_supply.v = general * ScalingFactor + 1 )
               => call.out = InvariantViolation(
                    "total supply is greater than runtime's general account balance")

\* The total supply exceeds the converted balance by 1 and check_invariants
\* has returned the violation.
C24_Witness ==
  /\ InvariantsChecked
  /\ call.in.den_ok /\ call.in.ts_ok /\ call.in.account_ok
  /\ call.in.balance = 3 /\ call.in.total_supply = Some(3 * ScalingFactor + 1)
  /\ call.out.kind = "InvariantViolation"

\* What a get of the plaintext key k returns from the store as it is.
Get(cs, k) == ConfidentialStore_get(cs, k).ret

\* C25: get(k) returns the value of the last insert(k, v) that no remove of
\* k followed and None otherwise, for every plaintext key, the empty one
\* included, after any sequence of operations; an insert or remove of k
\* does not change what get returns for any other key.
C25_GetReturnsLastInsert ==
  [][ cstore'.open =>
        /\ \A k \in PlainKeys : Get(cstore', k) = cstore'.written[k]
        /\ cstore'.op = "get" => cstore'.ret = cstore.written[cstore'.arg]
        /\ cstore'.op \in {"insert", "remove"} =>
             \A k \in PlainKeys \ {cstore'.arg} : Get(cstore', k) = Get(cstore, k)
        /\ ~cstore'.panic
    ]_vars

\* The empty key and the two keys that share a nonce have been written
\* with different values, the first of the two was removed, and a get of
\* the empty key has returned its value.
C25_Witness ==
  /\ cstore.open /\ cstore.op = "get" /\ cstore.arg = Plain("", 0)
  /\ cstore.ret = Found(Plain("v", 1))
  /\ cstore.written[Plain("a", 1)] = Absent
  /\ cstore.written[Plain("b", 1)] = Found(Plain("a", 1))
  /\ Get(cstore, Plain("b", 1)) = Found(Plain("a", 1))

\* A byte string that is the output of the AEAD, and a stored key: a nonce
\* followed by a sealed plaintext.
IsSealed(bytes) == bytes.form = "sealed" /\ bytes.key = cstore.key
IsStoredKey(bytes) == bytes.form = "packed" /\ IsSealed(bytes.enc)

\* C26: whatever an insert, get, remove or seek hands to the inner store is
\* ciphertext: first a stored key, the nonce followed by the sealed
\* plaintext key of the operation, and for an insert the sealed value; no
\* plaintext key or value is handed over, and the inner store holds none.
C26_InnerStoreSeesCiphertextOnly ==
  cstore.open =>
    /\ cstore.op \in {"get", "remove", "seek"} => Len(cstore.handed) = 1
    /\ cstore.op = "insert" => Len(cstore.handed) = 2
    /\ \A i \in 1..Len(cstore.handed) :
         /\ cstore.handed[i] \notin PlainKeys \cup PlainValues
         /\ cstore.handed[i].form # "plain"
         /\ i = 1 => /\ IsStoredKey(cstore.handed[i])
                     /\ cstore.handed[i].enc.text = cstore.arg
         /\ i = 2 => IsSealed(cstore.handed[i])
    /\ \A e \in cstore.inner :
         /\ IsStoredKey(e.key) /\ IsSealed(e.value)
         /\ e.key \notin PlainKeys /\ e.value \notin PlainValues

\* A value that is also a plaintext key has been inserted under the empty
\* key: a stored key and a sealed value went to the inner store.
C26_Witness ==
  /\ cstore.open /\ cstore.op = "insert" /\ cstore.arg = Plain("", 0)
  /\ cstore.written[Plain("", 0)] = Found(Plain("a", 1))
  /\ Len(cstore.handed) = 2
  /\ cstore.handed[2].form = "sealed" /\ cstore.handed[2].text = Plain("a", 1)
  /\ Length(cstore.handed[1]) = NONCE_SIZE + TAG_SIZE

Derived == call.fn = "derive_error"
\* The codes of the arms generated for the variants before the j-th.
TakenBefore(j) ==
  {call.out.arms[i].code :
     i \in {k \in 1..(j - 1) : call.out.arms[k].arm = "code"}}
\* The least number outside a finite set of numbers.
NextFree(taken) ==
  CHOOSE c \in 0..Cardinality(taken) :
    c \notin taken /\ \A d \in 0..(c - 1) : d \in taken
Numbered(j) ==
  /\ ~call.in.variants[j].transparent
  /\ Len(call.out.arms) = Len(call.in.variants)

\* C28: in an enum derived with autonumber the codes generated for the
\* variants that are not transparent are pairwise distinct; a variant
\* without an explicit code gets the least number that no earlier variant
\* was given, explicitly or automatically; a variant with an explicit code
\* gets that code, unless an earlier variant holds it: then the derivation
\* reports "code already used" and generates no code for the variant.
C28_AutonumberCodesDistinct ==
  (Derived /\ call.in.autonumber) =>
    \A j \in DOMAIN call.in.variants :
      Numbered(j) =>
        /\ \A i \in 1..(j - 1) :
             (call.out.arms[i].arm = "code" /\ call.out.arms[j].arm = "code")
               => call.out.arms[i].code # call.out.arms[j].code
        /\ ~call.in.variants[j].code.some
             => call.out.arms[j] = CodeArm(NextFree(TakenBefore(j)))
        /\ (call.in.variants[j].code.some
              /\ call.in.variants[j].code.v \notin TakenBefore(j))
             => call.out.arms[j] = CodeArm(call.in.variants[j].code.v)
        /\ (call.in.variants[j].code.some
              /\ call.in.variants[j].code.v \in TakenBefore(j))
             => /\ call.out.arms[j] = NoArm
                /\ "code already used" \in Range(call.out.errors)
\* An enum whose second variant is numbered 0 and whose third is numbered 2,
\* past the explicit code 1 of the first.
C28_Witness ==
  /\ Derived
  /\ call.in.autonumber
  /\ call.in.variants = <<ErrorVariant(Some(1), FALSE, FALSE),
                          ErrorVariant(None, FALSE, FALSE),
                          ErrorVariant(None, FALSE, TRUE)>>
  /\ call.out.arms = <<CodeArm(1), CodeArm(0), CodeArm(2)>>
  /\ call.out.errors = <<>>

\* ------------------------------------------------------------------- C29
Dispatched == call.fn = "handle_call"
\* The parts of a method before and after its first '.'.
FirstDot(method) == find(method, ".", 1)
ModulePart(method) == SubSeq(method, 1, FirstDot(method) - 1)
MethodTail(method) == SubSeq(method, FirstDot(method) + 1, Len(method))

\* C29: the generated handler splits the method at its first '.': for
\* <module_name>.<RpcName> with RpcName a declared handler it returns
\* Handled with that handler's result; for a method whose part before the
\* first '.' is another module's name, or whose tail is no declared
\* handler, it returns Unhandled with the args unchanged.
C29_HandlesOwnMethodsAtFirstDot ==
  Dispatched =>
    /\ (/\ FirstDot(call.in.method) # 0
        /\ ModulePart(call.in.method) = runtime_module_name
        /\ MethodTail(call.in.method) \in rpc_method_names)
         => call.out = dispatch_arm(MethodTail(call.in.method), call.in.args)
    /\ (\/ /\ FirstDot(call.in.method) # 0
           /\ ModulePart(call.in.method) = other_module_name
        \/ FirstDot(call.in.method) = 0
        \/ MethodTail(call.in.method) \notin rpc_method_names)
         => call.out = DispatchUnhandled(call.in.args)

\* ------------------------------------------------------------------- C30
DecodedTx == call.fn = "decode_tx"
\* The modules that produce a transaction for the scheme, by their position
\* in the runtime's tuple.
Supporting(scheme, utx) ==
  {i \in DOMAIN Modules : Module_decode_tx(Modules[i], scheme, utx).some}
FirstSupporting(scheme, utx) ==
  CHOOSE i \in Supporting(scheme, utx) :
    \A j \in Supporting(scheme, utx) : i <= j

\* C30: decode_tx rejects a transaction that approve_unverified_tx refuses,
\* with that error, whatever its proofs are.  For an approved transaction
\* whose auth proofs are a single Module(scheme) proof the signatures are
\* not verified: the result is the transaction produced by the first module
\* that produces one for the scheme, or MalformedTransaction when no module
\* does.  Any other approved transaction is accepted exactly when
\* utx.verify() succeeds, and is then returned as it is.
C30_ModuleProofSkipsVerification ==
  DecodedTx =>
    /\ call.in.wire = "unapproved"
         => call.out = Malformed(call.in, Tuple_approve_unverified_tx(1, call.in).error)
    /\ (call.in.wire = "cbor" /\ call.in.proof.module) =>
         /\ Supporting(call.in.proof.scheme, call.in) # {}
              => /\ call.out.ok
                 /\ call.out.tx =
                      Module_decode_tx(
                        Modules[FirstSupporting(call.in.proof.scheme, call.in)],
                        call.in.proof.scheme, call.in).tx
         /\ Supporting(call.in.proof.scheme, call.in) = {}
              => /\ ~call.out.ok
                 /\ call.out.error = Error("core", "MalformedTransaction")
    /\ (call.in.wire = "cbor" /\ ~call.in.proof.module) =>
         /\ call.out.ok <=> call.in.proof.valid
         /\ call.out.ok => call.out.tx = call.in
         /\ ~call.out.ok => call.out.error = Error("core", "MalformedTransaction")
\* A special greeting whose bytes would not pass utx.verify() was decoded
\* into the Insert call of the keyvalue module.
C30_Witness ==
  /\ DecodedTx
  /\ call.in.wire = "cbor"
  /\ call.in.proof = [ModuleProof(SPECIAL_GREETING_SCHEME) EXCEPT !.valid = FALSE]
  /\ call.out.ok
  /\ call.out.tx.method = "keyvalue.Insert"
  /\ call.out.tx.body.key = "greeting"

\* ------------------------------------------------------------------- C31
DispatchingTx == call.fn = "dispatch_tx"
\* C31: authenticate_tx is the first call dispatch_tx makes, before the
\* transaction scope is opened; when it fails, the scope is never opened,
\* before_handle_call and dispatch_call are never invoked, and dispatch_tx
\* returns the Failed call result made of the authentication error, with
\* the batch state and messages as they were.  What the steps return is
\* what dispatch_tx returns.
C31_AuthenticateBeforeScope ==
  DispatchingTx =>
    /\ call.trace # <<>> => call.trace[1] = "authenticate_tx"
    /\ ~Tuple_authenticate_tx(1, call.in).ok =>
         /\ Range(call.trace) \subseteq {"authenticate_tx"}
         /\ call.at \in {"authenticate_tx", "return"}
         /\ call.at = "return" =>
              /\ call.out.result.result =
                   Failed(Tuple_authenticate_tx(1, call.in).error.module,
                          Tuple_authenticate_tx(1, call.in).error.err)
              /\ ~call.out.err
              /\ call.out.state = state
              /\ call.out.messages = messages
    /\ call.at = "return" => call.out = dispatch_tx(BatchCtx, call.in, 0)
\* An insert of an unauthenticated signer was refused after the one call of
\* authenticate_tx.
C31_Witness ==
  /\ DispatchingTx
  /\ call.in = [InsertTx EXCEPT !.auth = FALSE]
  /\ call.at = "return"
  /\ call.trace = <<"authenticate_tx">>
  /\ call.out.result.result = Failed("core", "InvalidNonce")

\* ------------------------------------------------------------------- C34
\* C34: a seek of the store's iterator to a plaintext key that is in the
\* store leaves the iterator valid and without error, with get_key the
\* plaintext key and get_value the value last inserted for it.
C34_SeekFindsStoredKey ==
  (cstore.open /\ cstore.op = "seek" /\ cstore.written[cstore.arg].some) =>
     /\ cstore.it.valid
     /\ cstore.it.error = ""
     /\ cstore.it.key = Found(cstore.arg)
     /\ cstore.it.value = cstore.written[cstore.arg]
\* A seek to b in a store that holds a, which shares b's nonce and comes
\* before it, and b, inserted twice.
C34_Witness ==
  /\ cstore.open /\ cstore.op = "seek"
  /\ cstore.arg = Plain("b", 1)
  /\ cstore.written[Plain("a", 1)].some
  /\ cstore.written[Plain("b", 1)] = Found(Plain("v", 1))
  /\ cstore.it.valid
  /\ cstore.it.value = Found(Plain("v", 1))

\* ------------------------------------------------------------------- C32
\* The entries in the store, as pairs of plaintext key and value.
StoreEntries ==
  {Item(k, cstore.written[k].v) : k \in {x \in PlainKeys : cstore.written[x].some}}
OnceEach(items) ==
  /\ Range(items) = StoreEntries
  /\ Len(items) = Cardinality(StoreEntries)
\* The std next of a pass of std nexts after a rewind has returned None.
StdPassDone ==
  cstore.pass = "std" /\ cstore.op = "std_next" /\ ~cstore.ret.some
\* A pass of mkvs nexts after a rewind has left the iterator not valid.
MkvsPassDone ==
  /\ cstore.pass \in {"start", "mkvs"}
  /\ ~ConfidentialStoreIterator_is_valid(cstore.it)

\* C32: over a store that holds only what was inserted, the std nexts
\* after a rewind, up to the first None, yield each entry of the store
\* exactly once as its plaintext pair, and so do the positions that a rewind
\* and the mkvs nexts after it show, up to the first that is not valid.
C32_IterationYieldsEachEntryOnce ==
  (cstore.open /\ cstore.corrupt = {}) =>
     /\ StdPassDone => OnceEach(cstore.yielded)
     /\ MkvsPassDone => OnceEach(cstore.visited)
\* The half of it that is about rewind and mkvs next.
MkvsPassShowsEachEntryOnce ==
  (cstore.open /\ cstore.corrupt = {} /\ MkvsPassDone) => OnceEach(cstore.visited)
\* What the std nexts yield is every entry but the last of the inner order.
StdPassDropsTheLastEntry ==
  (cstore.open /\ cstore.corrupt = {} /\ StdPassDone) =>
     /\ Len(cstore.yielded) = Len(InnerEntries(cstore.inner)) - 1
          \/ (cstore.inner = {} /\ cstore.yielded = <<>>)
     /\ \A i \in 1..Len(cstore.yielded) :
          /\ make_key(cstore.key, cstore.yielded[i].key).key
               = InnerEntries(cstore.inner)[i].key
          /\ cstore.written[cstore.yielded[i].key] = Found(cstore.yielded[i].value)

\* ------------------------------------------------------------------- C33
\* The last operation loaded an inner entry that the store cannot open: its
\* raw key holds no more than a nonce, or its key or its value does not
\* decrypt.
LoadedCorruptEntry ==
  /\ cstore.open
  /\ cstore.op \in {"rewind", "seek", "next", "std_next"}
  /\ cstore.entry.some
  /\ \/ ~get_key(cstore.key, cstore.entry.key).ok
     \/ ~get_value(cstore.key, cstore.entry.value,
                   get_key(cstore.key, cstore.entry.key).nonce).ok
\* The iterator has recorded an error and is not valid.
Errored(it) ==
  /\ it.error # ""
  /\ ~ConfidentialStoreIterator_is_valid(it)
  /\ it.key = Absent
  /\ it.value = Absent

\* C33: when the iterator comes upon an inner entry it cannot open, it
\* records an error and is not valid: error() is set, is_valid is false,
\* get_key and get_value are None, and the std next that came upon it
\* returns None.
C33_CorruptEntryIsAnIteratorError ==
  LoadedCorruptEntry =>
     /\ Errored(cstore.it)
     /\ cstore.op = "std_next" => ~cstore.ret.some
\* The same of rewind, seek and mkvs next alone.
CorruptEntryUnderCursorIsAnError ==
  (LoadedCorruptEntry /\ cstore.op # "std_next") => Errored(cstore.it)
\* No std next returns an entry that cannot be opened, and the iterator is
\* not valid after it; the error is recorded unless the entry was the last
\* of the inner store.
StdNextOnCorruptEntry ==
  (LoadedCorruptEntry /\ cstore.op = "std_next") =>
     /\ ~cstore.ret.some
     /\ ~ConfidentialStoreIterator_is_valid(cstore.it)
     /\ cstore.it.key = Absent /\ cstore.it.value = Absent
     /\ cstore.it.error # "" <=> cstore.it.pos # 0

\* C35: however concurrent generate_once calls on one record interleave, the
\* generator runs at most once per module path; of the calls with one path,
\* the one that takes the record first returns Some and every other returns
\* None, whatever the calls with other paths do.
GenDone(t) == cstore.open /\ cstore.calls[t].pc = "done"
FirstOfItsPath(t) ==
  \A i, j \in 1..Len(cstore.order) :
    (cstore.order[j] = t /\ i < j) =>
      cstore.calls[cstore.order[i]].current_mod # cstore.calls[t].current_mod
C35_GeneratesOncePerPath ==
  cstore.open =>
    /\ \A p \in ModPaths :
         /\ cstore.ran[p] <= 1
         /\ Cardinality({t \in Threads : /\ cstore.calls[t].current_mod = p
                                         /\ GenDone(t)
                                         /\ cstore.calls[t].out.some}) <= 1
         /\ (\A t \in Threads : GenDone(t)) /\
            (\E t \in Threads : cstore.calls[t].current_mod = p)
              => Cardinality({t \in Threads :
                                /\ cstore.calls[t].current_mod = p
                                /\ cstore.calls[t].out.some}) = 1
    /\ \A t \in Threads :
         GenDone(t) => (cstore.calls[t].out.some <=> FirstOfItsPath(t))
C35_Witness ==
  /\ cstore.open
  /\ \A t \in Threads : GenDone(t)
  /\ \E t, u, w \in Threads :
       /\ cstore.calls[t].current_mod = cstore.calls[u].current_mod
       /\ cstore.calls[w].current_mod # cstore.calls[t].current_mod
       /\ cstore.calls[t].out.some /\ ~cstore.calls[u].out.some
       /\ cstore.calls[w].out.some
       /\ \E i, j, k \in 1..Len(cstore.order) :
            /\ i < j /\ j < k
            /\ cstore.order[i] = t /\ cstore.order[j] = w
            /\ cstore.order[k] = u

\* C36: for_instance gives every (instance, store kind) its own key space: a
\* get through a store returns the last value inserted through the store of
\* the same instance and kind, whatever was written through the others, and
\* every raw key written lies under the prefix of its instance and kind;
\* without a key manager a confidential store is refused with Unsupported
\* and the state is as it was.
InstanceStoreReads(id, kind, key) ==
  InstanceStore_get(cstore.runtime_state,
                    for_instance(cstore.key_manager, id, kind), key)
C36_InstanceStoresAreDisjoint ==
  cstore.open =>
    /\ \A id \in InstanceIds, kind \in StoreKinds, key \in InstanceKeys :
         for_instance(cstore.key_manager, id, kind).ok =>
           /\ InstanceStoreReads(id, kind, key).ret
                = cstore.last[<<id, kind, key>>]
           /\ ~InstanceStoreReads(id, kind, key).panic
    /\ \A e \in cstore.runtime_state :
         \E id \in InstanceIds, kind \in StoreKinds :
           e.key.prefix = <<"contracts", "INSTANCE_STATE">>
                            \o to_storage_key(id) \o StoreKind_prefix(kind)
    /\ (cstore.key_manager = "none" /\ cstore.kind = "Confidential"
        /\ cstore.op # "open")
         => /\ cstore.err = "Unsupported"
            /\ cstore.runtime_state = cstore.before
C36_Witness ==
  /\ cstore.open
  /\ cstore.key_manager = "ok"
  /\ cstore.op = "insert"
  /\ cstore.runtime_state # cstore.before
  /\ \E key \in InstanceKeys :
       /\ cstore.last[<<1, "Public", key>>] = Found(Plain("a", 1))
       /\ cstore.last[<<1, "Confidential", key>>] = Found(Plain("v", 1))
       /\ cstore.last[<<2, "Public", key>>] = Absent
       /\ cstore.last[<<2, "Confidential", key>>] = Found(Plain("a", 1))
C36_UnsupportedWitness ==
  /\ cstore.open
  /\ cstore.key_manager = "none"
  /\ cstore.op = "insert" /\ cstore.kind = "Confidential"
  /\ cstore.err = "Unsupported"
  /\ cstore.runtime_state # {}

\* The sum of the amounts of the withdrawals whose Transfer messages are in
\* the list ms.
RECURSIVE PendingWithdrawals(_)
PendingWithdrawals(ms) ==
  IF ms = <<>> THEN 0
  ELSE ( IF Head(ms).hook.hook_name = CONSENSUS_TRANSFER_HANDLER
         THEN Head(ms).hook.payload.amount ELSE 0 )
       + PendingWithdrawals(Tail(ms))
\* The results of the previous round's messages have not been handled yet.
ResultsOutstanding == pc \in {"idle", "decode", "messages"}
\* C37: through the rounds of withdraw transactions and their message
\* results, the balance of ADDRESS_PENDING_WITHDRAWAL is the sum of the
\* amounts of the withdrawals whose Transfer result has not been handled:
\* those of this round's messages and, until their results are handled,
\* those of the previous round's; the refund and the burn never panic.
C37_EscrowHoldsPendingWithdrawals ==
  /\ pc # "panicked"
  /\ pc # "failed" =>
       state.bal[ADDRESS_PENDING_WITHDRAWAL] =
         PendingWithdrawals(messages)
           + (IF ResultsOutstanding THEN PendingWithdrawals(sent) ELSE 0)
\* In the second round one withdrawal of the first was burned and the other
\* refunded, and a new withdrawal of 2 is waiting for its result.
C37_Witness ==
  /\ round = 1 /\ pc = "txs" /\ Len(sent) = 2
  /\ Len(block_tags) >= 2
  /\ ~block_tags[1].failed /\ block_tags[2].failed
  /\ Len(messages) = 1
  /\ messages[1].hook.hook_name = CONSENSUS_TRANSFER_HANDLER
  /\ state.bal[ADDRESS_PENDING_WITHDRAWAL] = 2
  /\ state.bal[Alice] = 0 /\ state.supply = 2

\* C38: in check_batch a transaction that fails decode_tx, or whose
\* prefetch fails, does not fail the batch: its place in the results holds
\* a CheckTxResult with that error and no metadata, the state of the check
\* is not touched by it, every transaction that decoded is checked by
\* check_tx, and check_batch returns one result per transaction of the
\* batch, in batch order.  (check_batch fails only when the check of a
\* decoded transaction aborts.)
CheckLoopTurn == check.pc = "txs" /\ check' # check
C38_UndecodableTxIsAResult ==
  /\ [](check.pc \in {"txs", "returned", "failed"} =>
          /\ Len(check.txs) = Len(check.batch)
          /\ Len(check.results) <= Len(check.batch)
          /\ \A i \in 1..Len(check.batch) :
               ~decode_tx(check.batch[i]).ok =>
                 /\ ~check.txs[i].ok
                 /\ check.txs[i].error = decode_tx(check.batch[i]).error
          /\ \A i \in 1..Len(check.results) :
               ~check.txs[i].ok =>
                 check.results[i] =
                   CheckTxResult(check.txs[i].error.module,
                                 check.txs[i].error.err, FALSE, 0, 0)
          /\ check.pc = "returned" =>
               /\ Len(check.results) = Len(check.batch)
               /\ check.ret = ReturnOk(check.results, <<>>, <<>>)
          /\ check.pc = "failed" =>
               /\ check.txs[Len(check.results) + 1].ok
               /\ check.ret.error.abort)
  /\ [][ CheckLoopTurn =>
           IF check.index = Len(check.txs) THEN check'.pc = "returned"
           ELSE IF ~check.txs[check.index + 1].ok
           THEN /\ check'.pc = "txs"
                /\ Len(check'.results) = Len(check.results) + 1
                /\ check'.state = check.state
                /\ check'.messages = check.messages
           ELSE \/ /\ check'.pc = "failed" /\ CheckedDispatch.err
                \/ /\ check'.pc = "txs"
                   /\ check'.results =
                        Append(check.results, check_tx(CheckedDispatch))
       ]_vars
\* check_batch returned the results of a batch whose first transaction did
\* not decode and whose second decoded and was checked.
C38_Witness ==
  /\ check.pc = "returned" /\ Len(check.batch) = 2
  /\ ~decode_tx(check.batch[1]).ok
  /\ check.results[1] = CheckTxResult("core", "MalformedTransaction", FALSE, 0, 0)
  /\ check.txs[2].ok /\ check.results[2].meta.some
\* The same with a first transaction that decoded and whose prefetch failed.
C38_PrefetchWitness ==
  /\ check.pc = "returned" /\ Len(check.batch) = 2
  /\ decode_tx(check.batch[1]).ok /\ ~check.txs[1].ok
  /\ check.results[1] = CheckTxResult("core", "InvalidArgument", FALSE, 0, 0)
  /\ check.txs[2].ok /\ check.results[2].meta.some

\* The hook names some module of the runtime handles.
HandledHooks == {CONSENSUS_TRANSFER_HANDLER, CONSENSUS_WITHDRAW_HANDLER}
\* The event list reaches, at its k-th event, a persisted handler that no
\* module handles: the events before it name handlers of their own that
\* modules handle.
ReachesUnhandledAt(evs, k) ==
  /\ k \in 1..Len(evs)
  /\ \A i \in 1..k : evs[i].index \in DOMAIN state.handlers
  /\ \A i, j \in 1..k : i # j => evs[i].index # evs[j].index
  /\ \A i \in 1..(k - 1) :
       state.handlers[evs[i].index].hook_name \in HandledHooks
  /\ state.handlers[evs[k].index].hook_name \notin HandledHooks
\* C39: when the hook_name of a persisted handler is handled by no module,
\* handle_last_round_messages returns InvalidMethod(hook_name) and
\* execute_batch fails there: no begin_block, no transaction executed
\* (nothing follows the failure), and of the handlers only those of the
\* events before it were invoked.
C39_UnhandledHookFailsBatch ==
  /\ [][ (pc = "messages" /\ pc' # pc) =>
           \A k \in 1..Len(events') :
             ReachesUnhandledAt(events', k) =>
               /\ pc' = "failed"
               /\ ret'.kind = "Err"
               /\ ret'.error =
                    "InvalidMethod("
                      \o state.handlers[events'[k].index].hook_name \o ")"
               /\ Len(invoked') = k - 1
               /\ \A i \in 1..(k - 1) : invoked'[i].event = events'[i]
               /\ results' = <<>> /\ index' = 0 /\ messages' = <<>>
       ]_vars
  /\ [][pc = "failed" => UNCHANGED vars]_vars
\* The host reported the result of the deposit's message and then the
\* result of the foreign module's: the deposit's handler
\* was invoked and the batch failed at the second event.
C39_Witness ==
  /\ pc = "failed" /\ ret.error = "InvalidMethod(foreign.Hook)"
  /\ Len(batch) > 0
  /\ Len(events) = 2 /\ events[1].index = 0 /\ events[2].index = 1
  /\ Len(invoked) = 1 /\ invoked[1].hook_name = CONSENSUS_WITHDRAW_HANDLER
  /\ results = <<>> /\ index = 0

\* What the results of the first n messages of the previous round add to
\* the total supply: the amount of every deposit whose Withdraw message
\* succeeded, less the amount of every withdrawal whose Transfer message
\* succeeded.
RECURSIVE SupplyChange(_)
SupplyChange(n) ==
  IF n = 0 THEN 0
  ELSE SupplyChange(n - 1)
       + ( IF ~events'[n].ok THEN 0
           ELSE IF sent[n].hook.hook_name = CONSENSUS_WITHDRAW_HANDLER
           THEN sent[n].hook.payload.amount
           ELSE IF sent[n].hook.hook_name = CONSENSUS_TRANSFER_HANDLER
           THEN 0 - sent[n].hook.payload.amount
           ELSE 0 )
\* C40: through deposits, withdrawals and the results of their messages the
\* total supply changes only when results are handled, by plus the amount
\* for every deposit result that succeeded and minus the amount for every
\* withdraw result that succeeded; the transactions themselves, failed
\* deposit results and the refunds of failed withdrawals leave it as it is.
C40_SupplyChangesOnlyOnSuccessfulResults ==
  [][ /\ (pc = "messages" /\ pc' = "begin") =>
           state'.supply = state.supply + SupplyChange(Len(sent))
      /\ ~(pc = "messages" /\ pc' = "begin") => state'.supply = state.supply
      /\ pc' # "panicked"
    ]_vars
\* The results of a deposit and of a withdrawal of the first round were
\* handled: the deposit succeeded and was minted, the withdrawal failed and
\* was refunded.
C40_Witness ==
  /\ pc = "begin" /\ round = 1 /\ Len(sent) = 2 /\ Len(events) = 2
  /\ sent[1].hook.hook_name = CONSENSUS_WITHDRAW_HANDLER /\ events[1].ok
  /\ sent[2].hook.hook_name = CONSENSUS_TRANSFER_HANDLER /\ ~events[2].ok
  /\ state.supply = 6 /\ state.bal[Alice] = 6
  /\ state.bal[ADDRESS_PENDING_WITHDRAWAL] = 0

====
